---- MODULE Spec2Model ----
(***************************************************************************)
(* A model of the ringserver core (src/src/ringserver.c): the watchdog     *)
(* loop of main(), ListenThread(), MatchIP(), ClientIPCount() and          *)
(* SignalThread(), with the client worker (ClientThread, clients.c) taken  *)
(* from the lifecycle the specification gives for it.                      *)
(***************************************************************************)
EXTENDS Integers, Sequences, FiniteSets, TLC

(***************************************************************************)
(* Bounds of the model.                                                    *)
(***************************************************************************)
\* Client units (thread_data / ClientInfo pairs) a run may create.
MaxConn == 2
\* The same, for the runs that fill the reserve space of the global cap.
MaxConnReserve == 17
\* The same, for the runs over the IP policies.
MaxConnPolicy == 3
\* The same, for the runs that drain after a termination signal.
MaxConnDrain == 1
\* The same, for the runs with a clock.
MaxConnTimed == 1
\* Seconds the clock moves on in a run with a clock.
MaxClock == 2
\* Packets a client worker sends or receives in a run.
MaxPackets == 1
\* The largest packet offset of the ring buffer.
MaxOffset == 3

\* The length of the transfer log window, in seconds of the clock.
TLogInterval == 2

(***************************************************************************)
(* Program constants.                                                      *)
(***************************************************************************)
RESERVECONNECTIONS == 10
\* The deadlock safety valve of the watchdog loop: param.shutdownsig >= 100.
ShutdownLimit == 100
\* errno of a pthread_create or malloc that found no resources.
EAGAIN == 11
AF_INET == "AF_INET"
AF_INET6 == "AF_INET6"
\* Any family that is neither AF_INET nor AF_INET6.
AF_UNSPEC == "AF_UNSPEC"

FAMILY_IPv4 == "FAMILY_IPv4"
FAMILY_UNIX == "FAMILY_UNIX"

LISTEN_THREAD == "LISTEN_THREAD"
MSEEDSCAN_THREAD == "MSEEDSCAN_THREAD"

TDS_SPAWNING == "TDS_SPAWNING"
TDS_ACTIVE == "TDS_ACTIVE"
TDS_CLOSE == "TDS_CLOSE"
TDS_CLOSING == "TDS_CLOSING"
TDS_CLOSED == "TDS_CLOSED"

(***************************************************************************)
(* Socket addresses and IPNet entries.  An address is its family and the   *)
(* octets of sin_addr (4) or sin6_addr (16), in network order.             *)
(***************************************************************************)
IPv4(a, b, c, d) == [sa_family |-> AF_INET, addr |-> <<a, b, c, d>>]

\* What a sockaddr_storage holds when nothing was stored in it with a
\* family of AF_INET or AF_INET6.
NoAddr == [sa_family |-> AF_UNSPEC, addr |-> <<>>]

IPNet4(n, m) ==
  [family |-> AF_INET, network |-> n.addr, netmask |-> m.addr, limitstr |-> ""]

\* An IPv6 address from its leading octets; the rest are zero.
IPv6(lead) ==
  [sa_family |-> AF_INET6, addr |-> [i \in 1..16 |-> IF i <= Len(lead) THEN lead[i] ELSE 0]]

IPNet6(n, m) ==
  [family |-> AF_INET6, network |-> n.addr, netmask |-> m.addr, limitstr |-> ""]

Mask8 == IPv4(255, 0, 0, 0)
Mask32 == IPv4(255, 255, 255, 255)

RECURSIVE BitAnd(_, _)
\* The C operator & on non-negative integers.
BitAnd(x, y) ==
  IF x = 0 \/ y = 0 THEN 0
  ELSE (x % 2) * (y % 2) + 2 * BitAnd(x \div 2, y \div 2)

\* One step of the while loop of MatchIP: does entry net match addr?  The
\* & of two 32 bit s_addr words is the & of their four octets.
NetMatches(net, addr) ==
  IF addr.sa_family = AF_INET /\ net.family = AF_INET
  THEN \A i \in 1..4 : BitAnd(addr.addr[i], net.netmask[i]) = net.network[i]
  ELSE IF addr.sa_family = AF_INET6 /\ net.family = AF_INET6
  THEN \A i \in 1..16 : BitAnd(addr.addr[i], net.netmask[i]) = net.network[i]
  ELSE FALSE

RECURSIVE MatchFrom_Last(_, _, _)
\* A search that goes on after a match and returns the last one.
MatchFrom_Last(list, addr, i) ==
  IF i > Len(list) THEN 0
  ELSE LET later == MatchFrom_Last(list, addr, i + 1)
       IN IF later # 0 THEN later
          ELSE IF NetMatches(list[i], addr) THEN i ELSE 0

RECURSIVE MatchFrom(_, _, _)
\* while (net): return the first entry that matches, net = net->next.
MatchFrom(list, addr, i) ==
  IF i > Len(list) THEN 0
  ELSE IF NetMatches(list[i], addr) THEN i
  ELSE MatchFrom(list, addr, i + 1)

\* MatchIP: the position in list of the first entry matching addr; 0 is NULL.
MatchIP(list, addr) ==
  IF list = <<>> THEN 0
  ELSE IF addr.sa_family # AF_INET /\ addr.sa_family # AF_INET6 THEN 0
  ELSE MatchFrom(list, addr, 1)

(***************************************************************************)
(* ClientInfo statistics and CalcStats.  Times are in seconds; a rate is    *)
(* kept as the quotient it was computed from, count over deltasec.         *)
(***************************************************************************)
\* The ring parameters CalcStats reads, of a ring that holds no packet.
EmptyRing == [earliestoffset |-> 0, latestoffset |-> 0, maxoffset |-> 0]

\* The values (int) may give for a double that is infinite or not a number.
INT_MAX == 2147483647
INT_MIN == -INT_MAX - 1
UndefinedInt == {INT_MIN, 0, INT_MAX}

\* The statistics of a ClientInfo fresh from calloc: no reader, all zero.
NoStats ==
  [reader |-> [valid |-> FALSE, pktoffset |-> 0],
   percentlag |-> 0, ratetime |-> 0,
   txpackets |-> <<0, 0>>, txbytes |-> <<0, 0>>,
   rxpackets |-> <<0, 0>>, rxbytes |-> <<0, 0>>,
   txpacketrate |-> [count |-> 0, deltasec |-> 1],
   txbyterate |-> [count |-> 0, deltasec |-> 1],
   rxpacketrate |-> [count |-> 0, deltasec |-> 1],
   rxbyterate |-> [count |-> 0, deltasec |-> 1]]

\* offset + maxoffset for an offset below the earliest one.
Unwrapped(offset, ring) ==
  IF offset < ring.earliestoffset THEN offset + ring.maxoffset ELSE offset

\* (int) of a quotient of integers with d > 0: truncation toward zero.
TruncDiv(n, d) == IF n >= 0 THEN n \div d ELSE -((-n) \div d)

\* The values percentlag may get: 0 without a valid reader position, else
\* (int)(((double)(latest - reader) / (latest - earliest)) * 100), which is
\* the conversion of an infinity or a NaN when latest equals earliest.
PercentLag(reader, ring) ==
  IF ~reader.valid THEN {0}
  ELSE LET latest == Unwrapped(ring.latestoffset, ring)
           rd == Unwrapped(reader.pktoffset, ring)
           span == latest - ring.earliestoffset
       IN IF span = 0 THEN UndefinedInt
          ELSE {TruncDiv(100 * (latest - rd), span)}

\* CalcStats that computes the rates and leaves the history values alone.
CalcStats_NoShift(cinfo, lag, nsnow) ==
  LET deltasec == IF cinfo.ratetime = 0 THEN 1 ELSE nsnow - cinfo.ratetime
      tx == cinfo.txpackets[1] > 0
      rx == cinfo.rxpackets[1] > 0
      Rate(c) == [count |-> c[1] - c[2], deltasec |-> deltasec]
  IN [cinfo EXCEPT
        !.percentlag = lag,
        !.txpacketrate = IF tx THEN Rate(cinfo.txpackets) ELSE @,
        !.txbyterate = IF tx THEN Rate(cinfo.txbytes) ELSE @,
        !.rxpacketrate = IF rx THEN Rate(cinfo.rxpackets) ELSE @,
        !.rxbyterate = IF rx THEN Rate(cinfo.rxbytes) ELSE @,
        !.ratetime = nsnow]

\* CalcStats at time nsnow, with lag the value percentlag gets.
CalcStats(cinfo, lag, nsnow) ==
  LET deltasec == IF cinfo.ratetime = 0 THEN 1 ELSE nsnow - cinfo.ratetime
      tx == cinfo.txpackets[1] > 0
      rx == cinfo.rxpackets[1] > 0
      Rate(c) == [count |-> c[1] - c[2], deltasec |-> deltasec]
      Shift(c) == <<c[1], c[1]>>
  IN [cinfo EXCEPT
        !.percentlag = lag,
        !.txpacketrate = IF tx THEN Rate(cinfo.txpackets) ELSE @,
        !.txbyterate = IF tx THEN Rate(cinfo.txbytes) ELSE @,
        !.txpackets = IF tx THEN Shift(@) ELSE @,
        !.txbytes = IF tx THEN Shift(@) ELSE @,
        !.rxpacketrate = IF rx THEN Rate(cinfo.rxpackets) ELSE @,
        !.rxbyterate = IF rx THEN Rate(cinfo.rxbytes) ELSE @,
        !.rxpackets = IF rx THEN Shift(@) ELSE @,
        !.rxbytes = IF rx THEN Shift(@) ELSE @,
        !.ratetime = nsnow]

(***************************************************************************)
(* The ring directory.  A file is a pair of a base name and a suffix; the  *)
(* directory gives for each file what it holds, "none" for no such file.   *)
(***************************************************************************)
ringfilename == <<"packetbuf", "">>
streamfilename == <<"streamidx", "">>

Files ==
  {"packetbuf", "streamidx"} \X {"", ".corrupt", ".version1", ".version2"}

\* A directory whose ring files hold held and whose .corrupt files, left by
\* an earlier recovery, hold backup.
RingDir(held, backup) ==
  [f \in Files |-> IF f[2] = "" THEN held
                   ELSE IF f[2] = ".corrupt" THEN backup ELSE "none"]

\* The ring directory before any ring file was written.
EmptyDir == RingDir("none", "none")

\* The ring directory of a server that initialised its ring.
FreshDir == RingDir("new", "none")

\* snprintf "%s.corrupt" or "%s.version%d" of the file name.
BackupName(file, ringinit) ==
  <<file[1], IF ringinit = -1 THEN ".corrupt"
             ELSE IF ringinit = 1 THEN ".version1" ELSE ".version2">>

\* rename (old, new): new is replaced if it exists.  ok tells whether the
\* call succeeds when old exists.
Rename(d, old, new, ok) ==
  IF d[old] = "none" THEN [ret |-> -1, errno |-> "ENOENT", d |-> d]
  ELSE IF ~ok THEN [ret |-> -1, errno |-> "EACCES", d |-> d]
  ELSE [ret |-> 0, errno |-> "",
        d |-> [d EXCEPT ![new] = d[old], ![old] = "none"]]

\* unlink (file).
Unlink(d, file, ok) ==
  IF d[file] = "none" THEN [ret |-> -1, errno |-> "ENOENT", d |-> d]
  ELSE IF ~ok THEN [ret |-> -1, errno |-> "EACCES", d |-> d]
  ELSE [ret |-> 0, errno |-> "", d |-> [d EXCEPT ![file] = "none"]]

\* if (call && errno != ENOENT)
Failed(res) == res.ret # 0 /\ res.errno # "ENOENT"

\* The status RingInitialize gives for what the packet buffer file holds:
\* 0 for no file or a file of the current format, -1 for a corrupt one,
\* the version number for a file of an earlier format.
RingStatus(held) ==
  IF held = "corrupt" THEN -1
  ELSE IF held = "version1" THEN 1
  ELSE IF held = "version2" THEN 2 ELSE 0

\* The ring files after a RingInitialize that returned 0.
Created(d) ==
  [f \in Files |-> IF f[2] = "" /\ d[f] = "none" THEN "new" ELSE d[f]]

(***************************************************************************)
(* The state.                                                              *)
(***************************************************************************)
VARIABLES
  config,        \* struct config_s: policy lists, caps, listen endpoints
  env,           \* what the run meets: peers, connections, failing calls
  shutdownsig,   \* param.shutdownsig
  clientcount,   \* param.clientcount
  cthreads,      \* param.cthreads: the client units linked, head first
  cthreads_lock, \* param.cthreads_lock: "free" or its holder
  sthreads_lock, \* param.sthreads_lock: "free" or its holder
  sthreads,      \* param.sthreads: per endpoint, the server unit
  lpp,           \* per endpoint, ListenPortParams: socket, options
  fs,            \* the socket paths that exist in the filesystem
  lt,            \* per endpoint, the locals of its ListenThread
  cl,            \* per client unit, thread_data + ClientInfo + its thread
  sup,           \* the locals of main(): position, cursors, servercount
  sigt,          \* the signal handling thread and the signals still to come
  now,           \* the clock NSnow() reads, in seconds
  ringshut,      \* the calls of RingShutdown so far
  disk           \* the ring directory: per file name, what the file holds

vars == <<disk, config, env, shutdownsig, clientcount, cthreads, cthreads_lock,
          sthreads_lock, sthreads, lpp, fs, lt, cl, sup, sigt, now, ringshut>>

Ports == DOMAIN lpp

\* The units of cthreads, as client unit numbers.
Linked == {cthreads[i] : i \in 1..Len(cthreads)}

\* ClientIPCount: the entries of cthreads whose stored address has the
\* family of addr and, for AF_INET and AF_INET6, the same address bytes.
ClientIPCount(addr) ==
  Cardinality({i \in 1..Len(cthreads) :
                 /\ cl[cthreads[i]].addr.sa_family = addr.sa_family
                 /\ addr.sa_family \in {AF_INET, AF_INET6}
                 /\ cl[cthreads[i]].addr.addr = addr.addr})

\* config.writeips && MatchIP (config.writeips, paddr)
HasWrite_Trusted(addr) == MatchIP(config.trustedips, addr) # 0

HasWrite(addr) == MatchIP(config.writeips, addr) # 0

\* A thread_data that starts in TDS_ACTIVE.
InitThreadData_Active(unit) == [unit EXCEPT !.td = TRUE, !.td_state = TDS_ACTIVE]

\* InitThreadData: a fresh thread_data in TDS_SPAWNING, put in a unit's slot.
InitThreadData(unit) == [unit EXCEPT !.td = TRUE, !.td_state = TDS_SPAWNING]

\* free (stp->td); stp->td = NULL
NoThreadData(unit) == [unit EXCEPT !.td = FALSE, !.td_state = "none"]

\* The locals of a ListenThread that has not run yet.
NoListener ==
  [pc |-> "none", paddr |-> NoAddr, cid |-> 0, cnt |-> 0,
   checks |-> <<>>, seen |-> 0, res |-> "none", clientsocket |-> "none"]

\* The results a call that can fail (calloc, malloc, pthread_create) may
\* give in this run: TRUE is success.
Outcomes(call) == IF call \in env.faults THEN {TRUE, FALSE} ELSE {TRUE}

\* TLogParams.tlogstartint and TLogParams.tlogendint before any window was
\* calculated.
NoWindow == [tlogstartint |-> 0, tlogendint |-> 0]

\* CalcIntWin (reftime, interval, &startint, &endint): the window of the
\* given length that holds the reference time.
CalcIntWin(reftime, interval) ==
  [tlogstartint |-> reftime - (reftime % interval),
   tlogendint |-> reftime - (reftime % interval) + interval]

(***************************************************************************)
(* The state main() enters its watchdog loop in: no unit has a thread,     *)
(* every listening socket is bound, every UNIX socket path exists.         *)
(***************************************************************************)
InitAt(pc, cfgs, envs) ==
  /\ config \in cfgs
  /\ env \in envs
  /\ shutdownsig = 0
  /\ clientcount = 0
  /\ cthreads = <<>>
  /\ cthreads_lock = "free"
  /\ sthreads_lock = "free"
  /\ sthreads = [p \in DOMAIN config.listen |->
                   [type |-> LISTEN_THREAD, td |-> FALSE, td_state |-> "none"]]
  /\ lpp = [p \in DOMAIN config.listen |->
              [socket |-> 5, options |-> config.listen[p]]]
  /\ fs = {p \in DOMAIN config.listen : config.listen[p] = FAMILY_UNIX}
  /\ lt = [p \in DOMAIN config.listen |-> NoListener]
  /\ cl = <<>>
  /\ sup = [pc |-> pc, hpcurtime |-> 0, loopstp |-> 0, loopctp |-> 0,
            servercount |-> 0, cnt |-> 0, exit |-> -1,
            ringinit |-> 0, convert_version |-> 0, loaded_packets |-> 0,
            calls |-> <<>>, errno |-> 0,
            configreset |-> 0, configfilemtime |-> 0, tlogwrite |-> 0,
            tlog |-> IF config.tlogbasedir
                     THEN CalcIntWin(IF env.clock = 0 THEN 0 ELSE 1,
                                     config.tloginterval)
                     ELSE NoWindow]
  /\ sigt = [state |-> "waiting", pending |-> env.signals,
             sent |-> env.sent, sig |-> "none"]
  /\ now = IF env.clock = 0 THEN 0 ELSE 1
  /\ ringshut = 0
  /\ disk = env.disk

InitWith(cfgs, envs) == InitAt("top", cfgs, envs)

(***************************************************************************)
(* ListenThread, one per endpoint p.  lt[p].pc is the place the thread is  *)
(* at; lt[p].checks lists the policy checks evaluated for the connection   *)
(* in hand and lt[p].res what became of it.                                *)
(***************************************************************************)
\* close (clientsocket); break.
Rejected_Break(p, why, evaluated) ==
  [lt[p] EXCEPT !.pc = "closing", !.res = why, !.checks = @ \o evaluated,
                !.clientsocket = "closed"]

\* close (clientsocket); continue: the connection is rejected by check why.
Rejected(p, why, evaluated) ==
  [lt[p] EXCEPT !.pc = "loop", !.res = why, !.checks = @ \o evaluated,
                !.clientsocket = "closed"]

\* The check passed (or was skipped): go on at the place next.
Passed(p, next, evaluated) ==
  [lt[p] EXCEPT !.pc = next, !.checks = @ \o evaluated]

\* The order of the admission checks in the dispatch loop: the block that
\* follows each one when it does not reject.
NextCheck_CountBeforeReject(check) ==
  CASE check = "match" -> "perip"
    [] check = "perip" -> "reject"
    [] check = "reject" -> "cap"
    [] check = "cap" -> "alloc"

NextCheck(check) ==
  CASE check = "match" -> "reject"
    [] check = "reject" -> "perip"
    [] check = "perip" -> "cap"
    [] check = "cap" -> "alloc"

\* Set thread active status.  A UNIX listener never stores into
\* addr_storage, so paddr keeps what the stack held when the thread began.
Listen_Start(p) ==
  /\ lt[p].pc = "start"
  /\ sthreads' = [sthreads EXCEPT ![p].td_state = TDS_ACTIVE]
  /\ \E g \in (IF lpp[p].options = FAMILY_UNIX THEN env.garbage ELSE {NoAddr}) :
       lt' = [lt EXCEPT ![p].pc = "loop", ![p].paddr = g]
  /\ UNCHANGED <<disk, config, env, shutdownsig, clientcount, cthreads, cthreads_lock,
                 sthreads_lock, lpp, fs, cl, sup, sigt, now, ringshut>>

\* while (!param.shutdownsig)
Listen_Loop(p) ==
  /\ lt[p].pc = "loop"
  /\ lt' = [lt EXCEPT ![p].pc = IF shutdownsig # 0 THEN "closing" ELSE "accept"]
  /\ UNCHANGED <<disk, config, env, shutdownsig, clientcount, cthreads, cthreads_lock,
                 sthreads_lock, sthreads, lpp, fs, cl, sup, sigt, now, ringshut>>

\* accept(): fails once the socket was closed (the loop is left), or gives
\* the next connection, whose peer address it stores for a TCP endpoint.
Listen_Accept(p) ==
  /\ lt[p].pc = "accept"
  /\ IF lpp[p].socket <= 0
     THEN lt' = [lt EXCEPT ![p].pc = "closing"]
     ELSE /\ Len(cl) < env.limit
          /\ \E a \in (IF lpp[p].options = FAMILY_UNIX
                        THEN {lt[p].paddr} ELSE env.peers) :
               lt' = [lt EXCEPT ![p].pc = "match", ![p].paddr = a,
                                ![p].checks = <<>>, ![p].res = "none",
                                ![p].cid = 0, ![p].seen = 0,
                                ![p].clientsocket = "open"]
  /\ UNCHANGED <<disk, config, env, shutdownsig, clientcount, cthreads, cthreads_lock,
                 sthreads_lock, sthreads, lpp, fs, cl, sup, sigt, now, ringshut>>

\* Reject clients not in matching list.
Listen_Match(p) ==
  /\ lt[p].pc = "match"
  /\ lt' = [lt EXCEPT ![p] =
       IF config.matchips # <<>>
       THEN IF MatchIP(config.matchips, lt[p].paddr) = 0
            THEN Rejected(p, "match", <<"match">>)
            ELSE Passed(p, NextCheck("match"), <<"match">>)
       ELSE Passed(p, NextCheck("match"), <<>>)]
  /\ UNCHANGED <<disk, config, env, shutdownsig, clientcount, cthreads, cthreads_lock,
                 sthreads_lock, sthreads, lpp, fs, cl, sup, sigt, now, ringshut>>

\* Reject clients in the rejection list.
RejectListed_UnlessWrite(addr) ==
  /\ MatchIP(config.rejectips, addr) # 0
  /\ MatchIP(config.writeips, addr) = 0

RejectListed(addr) == MatchIP(config.rejectips, addr) # 0

Listen_Reject(p) ==
  /\ lt[p].pc = "reject"
  /\ lt' = [lt EXCEPT ![p] =
       IF config.rejectips # <<>>
       THEN IF RejectListed(lt[p].paddr)
            THEN Rejected(p, "reject", <<"reject">>)
            ELSE Passed(p, NextCheck("reject"), <<"reject">>)
       ELSE Passed(p, NextCheck("reject"), <<>>)]
  /\ UNCHANGED <<disk, config, env, shutdownsig, clientcount, cthreads, cthreads_lock,
                 sthreads_lock, sthreads, lpp, fs, cl, sup, sigt, now, ringshut>>

\* Enforce per-address connection limit for non write permission addresses.
\* ClientIPCount takes param.cthreads_lock for its walk of the list.
Listen_PerIP(p) ==
  /\ lt[p].pc = "perip"
  /\ IF config.maxclientsperip # 0
     THEN IF HasWrite(lt[p].paddr)
          THEN lt' = [lt EXCEPT ![p] = Passed(p, NextCheck("perip"), <<"write">>)]
          ELSE /\ cthreads_lock = "free"
               /\ lt' = [lt EXCEPT ![p] =
                    IF ClientIPCount(lt[p].paddr) >= config.maxclientsperip
                    THEN Rejected(p, "perip", <<"write", "ipcount">>)
                    ELSE Passed(p, NextCheck("perip"), <<"write", "ipcount">>)]
     ELSE lt' = [lt EXCEPT ![p] = Passed(p, NextCheck("perip"), <<>>)]
  /\ UNCHANGED <<disk, config, env, shutdownsig, clientcount, cthreads, cthreads_lock,
                 sthreads_lock, sthreads, lpp, fs, cl, sup, sigt, now, ringshut>>

\* Enforce maximum number of clients if specified: the first read of
\* param.clientcount, kept in seen.
AtMaxClients_Above(count) == count > config.maxclients

AtMaxClients(count) == count >= config.maxclients

Listen_Cap(p) ==
  /\ lt[p].pc = "cap"
  /\ lt' = [lt EXCEPT ![p] =
       IF config.maxclients # 0
       THEN IF AtMaxClients(clientcount)
            THEN IF HasWrite(lt[p].paddr)
                 THEN [Passed(p, "reserve", <<"count">>) EXCEPT !.seen = clientcount]
                 ELSE [Rejected(p, "cap", <<"count">>) EXCEPT !.seen = clientcount]
            ELSE [Passed(p, NextCheck("cap"), <<"count">>) EXCEPT !.seen = clientcount]
       ELSE Passed(p, NextCheck("cap"), <<>>)]
  /\ UNCHANGED <<disk, config, env, shutdownsig, clientcount, cthreads, cthreads_lock,
                 sthreads_lock, sthreads, lpp, fs, cl, sup, sigt, now, ringshut>>

\* The second read of param.clientcount, for an address with write
\* permission: param.clientcount <= (config.maxclients + RESERVECONNECTIONS)
InReserve(count) == count <= config.maxclients + RESERVECONNECTIONS

Listen_Reserve(p) ==
  /\ lt[p].pc = "reserve"
  /\ lt' = [lt EXCEPT ![p] =
       IF InReserve(clientcount)
       THEN [Passed(p, NextCheck("cap"), <<>>) EXCEPT !.seen = clientcount]
       ELSE [Rejected(p, "cap", <<>>) EXCEPT !.seen = clientcount]]
  /\ UNCHANGED <<disk, config, env, shutdownsig, clientcount, cthreads, cthreads_lock,
                 sthreads_lock, sthreads, lpp, fs, cl, sup, sigt, now, ringshut>>

\* The ClientInfo and thread_data the listener builds for the connection.
NewClient(p) ==
  [td_state |-> TDS_SPAWNING,
   addr |-> lt[p].paddr,
   writeperm |-> MatchIP(config.writeips, lt[p].paddr) # 0,
   trusted |-> MatchIP(config.trustedips, lt[p].paddr) # 0,
   limit |-> MatchIP(config.limitips, lt[p].paddr),
   lastxchange |-> now,
   port |-> p,
   socket |-> lt[p].clientsocket,
   thr |-> "none",
   td_free |-> 0,
   cinfo_free |-> 0,
   tlogrow |-> 0,
   cinfo |-> NoStats]

\* Allocate and initialize connection info struct, then InitThreadData.
\* A failed calloc closes the socket and leaves the loop.
Listen_Alloc(p) ==
  /\ lt[p].pc = "alloc"
  /\ \E ok \in Outcomes("calloc") :
       IF ok
       THEN /\ cl' = Append(cl, NewClient(p))
            /\ lt' = [lt EXCEPT ![p].pc = "create", ![p].cid = Len(cl) + 1]
       ELSE /\ cl' = cl
            /\ lt' = [lt EXCEPT ![p].pc = "closing", ![p].res = "error",
                                ![p].clientsocket = "closed"]
  /\ UNCHANGED <<disk, config, env, shutdownsig, clientcount, cthreads, cthreads_lock,
                 sthreads_lock, sthreads, lpp, fs, sup, sigt, now, ringshut>>

\* Create new client thread.  On failure: close the socket, free (tdp),
\* continue.
Listen_Create(p) ==
  /\ lt[p].pc = "create"
  /\ \E ok \in Outcomes("pthread_create") :
       IF ok
       THEN /\ cl' = [cl EXCEPT ![lt[p].cid].thr = "running"]
            /\ lt' = [lt EXCEPT ![p].pc = "link"]
       ELSE /\ cl' = [cl EXCEPT ![lt[p].cid].td_free = @ + 1,
                                ![lt[p].cid].socket = "closed"]
            /\ lt' = [lt EXCEPT ![p].pc = "loop", ![p].res = "error",
                                ![p].clientsocket = "closed"]
  /\ UNCHANGED <<disk, config, env, shutdownsig, clientcount, cthreads, cthreads_lock,
                 sthreads_lock, sthreads, lpp, fs, sup, sigt, now, ringshut>>

\* malloc the cthread and add it to the beginning of param.cthreads under
\* param.cthreads_lock.  On a failed malloc: close the socket, free (tdp),
\* break.
Listen_Link(p) ==
  /\ lt[p].pc = "link"
  /\ \E ok \in Outcomes("malloc_cthread") :
       IF ok
       THEN /\ cthreads_lock = "free"
            /\ cthreads' = <<lt[p].cid>> \o cthreads
            /\ cl' = cl
            /\ lt' = [lt EXCEPT ![p].pc = "count", ![p].res = "admitted"]
       ELSE /\ cthreads' = cthreads
            /\ cl' = [cl EXCEPT ![lt[p].cid].td_free = @ + 1,
                                ![lt[p].cid].socket = "closed"]
            /\ lt' = [lt EXCEPT ![p].pc = "closing", ![p].res = "error",
                                ![p].clientsocket = "closed"]
  /\ UNCHANGED <<disk, config, env, shutdownsig, clientcount, cthreads_lock,
                 sthreads_lock, sthreads, lpp, fs, sup, sigt, now, ringshut>>

\* param.clientcount++, outside any lock: the load ...
Listen_CountLoad(p) ==
  /\ lt[p].pc = "count"
  /\ lt' = [lt EXCEPT ![p].pc = "store", ![p].cnt = clientcount]
  /\ UNCHANGED <<disk, config, env, shutdownsig, clientcount, cthreads, cthreads_lock,
                 sthreads_lock, sthreads, lpp, fs, cl, sup, sigt, now, ringshut>>

\* ... and the store.
Listen_CountStore(p) ==
  /\ lt[p].pc = "store"
  /\ clientcount' = lt[p].cnt + 1
  /\ lt' = [lt EXCEPT ![p].pc = "loop"]
  /\ UNCHANGED <<disk, config, env, shutdownsig, cthreads, cthreads_lock,
                 sthreads_lock, sthreads, lpp, fs, cl, sup, sigt, now, ringshut>>

\* Set thread closing status.
Listen_Closed(p) ==
  /\ lt[p].pc = "closing"
  /\ sthreads' = [sthreads EXCEPT ![p].td_state = TDS_CLOSED]
  /\ lt' = [lt EXCEPT ![p].pc = "unlink"]
  /\ UNCHANGED <<disk, config, env, shutdownsig, clientcount, cthreads, cthreads_lock,
                 sthreads_lock, lpp, fs, cl, sup, sigt, now, ringshut>>

\* An exit path that takes param.sthreads_lock before it returns.
Listen_Return_Locked(p) ==
  /\ lt[p].pc = "unlink"
  /\ sthreads_lock = "free"
  /\ fs' = IF lpp[p].options = FAMILY_UNIX THEN fs \ {p} ELSE fs
  /\ lt' = [lt EXCEPT ![p].pc = "exited"]
  /\ UNCHANGED <<disk, config, env, shutdownsig, clientcount, cthreads, cthreads_lock,
                 sthreads_lock, sthreads, lpp, cl, sup, sigt, now, ringshut>>

\* unlink (lpp->portstr) for a UNIX endpoint; return NULL.
Listen_Return(p) ==
  /\ lt[p].pc = "unlink"
  /\ fs' = IF lpp[p].options = FAMILY_UNIX THEN fs \ {p} ELSE fs
  /\ lt' = [lt EXCEPT ![p].pc = "exited"]
  /\ UNCHANGED <<disk, config, env, shutdownsig, clientcount, cthreads, cthreads_lock,
                 sthreads_lock, sthreads, lpp, cl, sup, sigt, now, ringshut>>

(***************************************************************************)
(* The client worker.  ClientThread is not part of ringserver.c; its steps *)
(* are the lifecycle transitions a worker makes on its own thread_data.    *)
(***************************************************************************)
\* Spawning -> Active: the worker announces it is serving.
Client_Active(c) ==
  /\ cl[c].thr = "running"
  /\ cl[c].td_state = TDS_SPAWNING
  /\ cl' = [cl EXCEPT ![c].td_state = TDS_ACTIVE]
  /\ UNCHANGED <<disk, config, env, shutdownsig, clientcount, cthreads, cthreads_lock,
                 sthreads_lock, sthreads, lpp, fs, lt, sup, sigt, now, ringshut>>

\* Close -> Closing: the worker observes the request and drains.
Client_Closing(c) ==
  /\ cl[c].thr = "running"
  /\ cl[c].td_state = TDS_CLOSE
  /\ cl' = [cl EXCEPT ![c].td_state = TDS_CLOSING]
  /\ UNCHANGED <<disk, config, env, shutdownsig, clientcount, cthreads, cthreads_lock,
                 sthreads_lock, sthreads, lpp, fs, lt, sup, sigt, now, ringshut>>

\* Any state but Closed -> Closed: the worker is done (drained, the peer
\* went away, an error), closes its socket and its thread ends.
Client_Closed(c) ==
  /\ cl[c].thr = "running"
  /\ cl[c].td_state # TDS_CLOSED
  /\ cl' = [cl EXCEPT ![c].td_state = TDS_CLOSED, ![c].socket = "closed"]
  /\ UNCHANGED <<disk, config, env, shutdownsig, clientcount, cthreads, cthreads_lock,
                 sthreads_lock, sthreads, lpp, fs, lt, sup, sigt, now, ringshut>>

\* The worker sends a packet of n bytes to its peer (receives one, for rx):
\* the counters go up and lastxchange is set to the time of the exchange.
Client_Send(c, n) ==
  /\ cl[c].thr = "running"
  /\ cl[c].td_state = TDS_ACTIVE
  /\ cl[c].cinfo.txpackets[1] < env.packets
  /\ cl' = [cl EXCEPT ![c].cinfo.txpackets[1] = @ + 1,
                      ![c].cinfo.txbytes[1] = @ + n,
                      ![c].lastxchange = now]
  /\ UNCHANGED <<disk, config, env, shutdownsig, clientcount, cthreads,
                 cthreads_lock, sthreads_lock, sthreads, lpp, fs, lt, sup,
                 sigt, now, ringshut>>

Client_Recv(c, n) ==
  /\ cl[c].thr = "running"
  /\ cl[c].td_state = TDS_ACTIVE
  /\ cl[c].cinfo.rxpackets[1] < env.packets
  /\ cl' = [cl EXCEPT ![c].cinfo.rxpackets[1] = @ + 1,
                      ![c].cinfo.rxbytes[1] = @ + n,
                      ![c].lastxchange = now]
  /\ UNCHANGED <<disk, config, env, shutdownsig, clientcount, cthreads,
                 cthreads_lock, sthreads_lock, sthreads, lpp, fs, lt, sup,
                 sigt, now, ringshut>>

\* The worker positions its ring reader on the packet at offset.
Client_Read(c, offset) ==
  /\ cl[c].thr = "running"
  /\ cl[c].td_state = TDS_ACTIVE
  /\ cl[c].cinfo.reader # [valid |-> TRUE, pktoffset |-> offset]
  /\ cl' = [cl EXCEPT ![c].cinfo.reader = [valid |-> TRUE, pktoffset |-> offset]]
  /\ UNCHANGED <<disk, config, env, shutdownsig, clientcount, cthreads,
                 cthreads_lock, sthreads_lock, sthreads, lpp, fs, lt, sup,
                 sigt, now, ringshut>>

(***************************************************************************)
(* SignalThread.  sigt.pending counts the SIGTERMs still to come, sigt.sent *)
(* holds the other signals still to come, sigt.sig is what sigwait gave.   *)
(***************************************************************************)
\* globalsigset as sigwait gets it: every signal (sigfillset in main), less
\* SIGPIPE (sigdelset at the start of the thread).
SigWaitSet_Full(signals) == signals

SigWaitSet(signals) == signals \ {"SIGPIPE"}

\* SIGTERM: set global termination flag.
Signal_Term ==
  /\ sigt.state = "waiting"
  /\ sigt.pending > 0
  /\ sigt' = [sigt EXCEPT !.pending = @ - 1, !.sig = "SIGTERM"]
  /\ shutdownsig' = 1
  /\ UNCHANGED <<disk, config, env, clientcount, cthreads, cthreads_lock,
                 sthreads_lock, sthreads, lpp, fs, lt, cl, sup, now, ringshut>>

\* sigwait returns one of the other signals sent, and the switch: SIGINT
\* sets the flag like SIGTERM, SIGUSR1 prints (PrintHandler), SIGSEGV
\* exits the process with status 1, anything else is ignored.
Signal_Other(sig) ==
  /\ sigt.state = "waiting"
  /\ sup.pc # "returned"
  /\ sig \in SigWaitSet(sigt.sent)
  /\ sigt' = [sigt EXCEPT !.sent = @ \ {sig}, !.sig = sig]
  /\ shutdownsig' = IF sig = "SIGINT" THEN 1 ELSE shutdownsig
  /\ sup' = IF sig = "SIGSEGV" THEN [sup EXCEPT !.pc = "returned", !.exit = 1]
            ELSE sup
  /\ UNCHANGED <<disk, config, env, clientcount, cthreads, cthreads_lock,
                 sthreads_lock, sthreads, lpp, fs, lt, cl, now, ringshut>>

(***************************************************************************)
(* main(): ring initialisation and auto recovery.  sup.calls lists the     *)
(* calls made on the ring and its files, each with what it returned.       *)
(***************************************************************************)
Called(calls, call, ret) == Append(calls, [call |-> call, ret |-> ret])

\* What RingInitialize may return: the status of the packet buffer file,
\* or -2 for an error that no recovery mends.
RingInitialize(d) ==
  {RingStatus(d[ringfilename])}
    \cup (IF "RingInitialize" \in env.faults THEN {-2} ELSE {})

\* Exit only if there is no auto recovery.
Fatal_NoAutoRecovery(ringinit) == config.autorecovery = 0

\* Exit on unrecoverable errors or if no auto recovery.
Fatal(ringinit) == ringinit = -2 \/ config.autorecovery = 0

StartupFrame ==
  UNCHANGED <<config, env, shutdownsig, clientcount, cthreads, cthreads_lock,
              sthreads_lock, sthreads, lpp, fs, lt, cl, sigt, now, ringshut>>

\* Initialize ring system.
Main_RingInit ==
  /\ sup.pc = "ringinit"
  /\ \E r \in RingInitialize(disk) :
       /\ disk' = IF r = 0 THEN Created(disk) ELSE disk
       /\ sup' = [sup EXCEPT
                    !.ringinit = r,
                    !.calls = Called(@, "RingInitialize", r),
                    !.pc = IF r = 0 THEN "top"
                           ELSE IF Fatal(r) THEN "returned" ELSE "recover",
                    !.exit = IF r # 0 /\ Fatal(r) THEN 1 ELSE @]
  /\ StartupFrame

\* Move the ring files to backup files (auto recovery 1), or remove them
\* (auto recovery 2); return 1 on a failure other than ENOENT.
Main_Recover ==
  /\ sup.pc = "recover"
  /\ IF config.autorecovery = 1 /\ (sup.ringinit = -1 \/ sup.ringinit > 0)
     THEN \E ok1, ok2 \in Outcomes("rename") :
            LET r1 == Rename(disk, ringfilename,
                             BackupName(ringfilename, sup.ringinit), ok1)
                r2 == Rename(r1.d, streamfilename,
                             BackupName(streamfilename, sup.ringinit), ok2)
                version == IF sup.ringinit > 0 THEN sup.ringinit % 65536
                           ELSE sup.convert_version
                c1 == Called(sup.calls, "rename", r1.ret)
            IN IF Failed(r1)
               THEN /\ disk' = r1.d
                    /\ sup' = [sup EXCEPT !.pc = "returned", !.exit = 1,
                                          !.convert_version = version,
                                          !.calls = c1]
               ELSE /\ disk' = r2.d
                    /\ sup' = [sup EXCEPT
                                 !.pc = IF Failed(r2) THEN "returned" ELSE "reinit",
                                 !.exit = IF Failed(r2) THEN 1 ELSE @,
                                 !.convert_version = version,
                                 !.calls = Called(c1, "rename", r2.ret)]
     ELSE IF config.autorecovery = 2
     THEN \E ok1, ok2 \in Outcomes("unlink") :
            LET r1 == Unlink(disk, ringfilename, ok1)
                r2 == Unlink(r1.d, streamfilename, ok2)
                c1 == Called(sup.calls, "unlink", r1.ret)
            IN IF Failed(r1)
               THEN /\ disk' = r1.d
                    /\ sup' = [sup EXCEPT !.pc = "returned", !.exit = 1,
                                          !.calls = c1]
               ELSE /\ disk' = r2.d
                    /\ sup' = [sup EXCEPT
                                 !.pc = IF Failed(r2) THEN "returned" ELSE "reinit",
                                 !.exit = IF Failed(r2) THEN 1 ELSE @,
                                 !.calls = Called(c1, "unlink", r2.ret)]
     ELSE /\ disk' = disk
          /\ sup' = [sup EXCEPT !.pc = "returned", !.exit = 1]
  /\ StartupFrame

\* Re-initialize ring system; return 1 on any error.
Main_ReInit ==
  /\ sup.pc = "reinit"
  /\ \E r \in RingInitialize(disk) :
       /\ disk' = IF r = 0 THEN Created(disk) ELSE disk
       /\ sup' = [sup EXCEPT
                    !.ringinit = r,
                    !.calls = Called(@, "RingInitialize", r),
                    !.pc = IF r # 0 THEN "returned"
                           ELSE IF config.autorecovery = 1 /\ sup.convert_version > 0
                                THEN "convert" ELSE "top",
                    !.exit = IF r # 0 THEN 1 ELSE @]
  /\ StartupFrame

\* The backup counts as loaded whatever the loader returned.
LoadedOK_Always(loaded_packets) == TRUE

\* if (loaded_packets >= 0)
LoadedOK(loaded_packets) == loaded_packets >= 0

\* LoadBufferV1 for version 1, return 1 for any other version.  The loader
\* puts the packets of the backup file into the ring, or returns -1.
Main_Convert ==
  /\ sup.pc = "convert"
  /\ IF sup.convert_version = 1
     THEN \E ok \in Outcomes("LoadBufferV1") :
            LET loaded == IF ok THEN 1 ELSE -1 IN
            /\ disk' = IF ok THEN [disk EXCEPT ![ringfilename] = "replayed"]
                       ELSE disk
            /\ sup' = [sup EXCEPT
                         !.loaded_packets = loaded,
                         !.calls = Called(@, "LoadBufferV1", loaded),
                         !.pc = IF LoadedOK(loaded) THEN "cleanup" ELSE "top"]
     ELSE /\ disk' = disk
          /\ sup' = [sup EXCEPT !.pc = "returned", !.exit = 1]
  /\ StartupFrame

\* Remove the backup files that have been converted.
Main_Cleanup ==
  /\ sup.pc = "cleanup"
  /\ \E ok1, ok2 \in Outcomes("unlink") :
       LET r1 == Unlink(disk, BackupName(ringfilename, sup.convert_version), ok1)
           r2 == Unlink(r1.d, BackupName(streamfilename, sup.convert_version), ok2)
           c1 == Called(sup.calls, "unlink", r1.ret)
       IN IF Failed(r1)
          THEN /\ disk' = r1.d
               /\ sup' = [sup EXCEPT !.pc = "returned", !.exit = 1, !.calls = c1]
          ELSE /\ disk' = r2.d
               /\ sup' = [sup EXCEPT
                            !.pc = IF Failed(r2) THEN "returned" ELSE "top",
                            !.exit = IF Failed(r2) THEN 1 ELSE @,
                            !.calls = Called(c1, "unlink", r2.ret)]
  /\ StartupFrame

(***************************************************************************)
(* main(): the watchdog loop.  sup.pc is the place main() is at.           *)
(***************************************************************************)
\* hpcurtime = NSnow (); if (param.shutdownsig == 1) param.shutdownsig = 2
Main_Top ==
  /\ sup.pc = "top"
  /\ IF shutdownsig = 1
     THEN /\ shutdownsig' = 2
          /\ sup' = [sup EXCEPT !.pc = "mark_servers", !.hpcurtime = now]
     ELSE /\ shutdownsig' = shutdownsig
          /\ sup' = [sup EXCEPT !.pc = "valve", !.hpcurtime = now]
  /\ UNCHANGED <<disk, config, env, clientcount, cthreads, cthreads_lock,
                 sthreads_lock, sthreads, lpp, fs, lt, cl, sigt, now, ringshut>>

\* Request shutdown of server threads, under param.sthreads_lock: close the
\* socket of every listener, set every other unit with a thread that is not
\* closing or closed to TDS_CLOSE.  Then take param.cthreads_lock.
MarkedUnit(u) ==
  IF u.type # LISTEN_THREAD /\ u.td
     /\ u.td_state # TDS_CLOSING /\ u.td_state # TDS_CLOSED
  THEN [u EXCEPT !.td_state = TDS_CLOSE]
  ELSE u

Main_MarkServers ==
  /\ sup.pc = "mark_servers"
  /\ sthreads_lock = "free"
  /\ cthreads_lock = "free"
  /\ lpp' = [p \in Ports |->
              IF sthreads[p].type = LISTEN_THREAD /\ lpp[p].socket > 0
              THEN [lpp[p] EXCEPT !.socket = -1]
              ELSE lpp[p]]
  /\ sthreads' = [p \in Ports |-> MarkedUnit(sthreads[p])]
  /\ cthreads_lock' = "main"
  /\ sup' = [sup EXCEPT !.pc = "mark_clients", !.loopctp = 1]
  /\ UNCHANGED <<disk, config, env, shutdownsig, clientcount, cthreads,
                 sthreads_lock, fs, lt, cl, sigt, now, ringshut>>

\* Request shutdown of client threads: the test of td_state, read without
\* the unit's td_lock ...
NeedsClose(state) == state # TDS_CLOSING /\ state # TDS_CLOSED

Main_MarkClient ==
  /\ sup.pc = "mark_clients"
  /\ IF sup.loopctp > Len(cthreads)
     THEN /\ cthreads_lock' = "free"
          /\ sup' = [sup EXCEPT !.pc = "valve", !.loopctp = 0]
     ELSE /\ cthreads_lock' = cthreads_lock
          /\ sup' = IF NeedsClose(cl[cthreads[sup.loopctp]].td_state)
                    THEN [sup EXCEPT !.pc = "mark_write"]
                    ELSE [sup EXCEPT !.loopctp = @ + 1]
  /\ UNCHANGED <<disk, config, env, shutdownsig, clientcount, cthreads,
                 sthreads_lock, sthreads, lpp, fs, lt, cl, sigt, now, ringshut>>

\* ... and the write of TDS_CLOSE, under td_lock.
Main_MarkWrite ==
  /\ sup.pc = "mark_write"
  /\ cl' = [cl EXCEPT ![cthreads[sup.loopctp]].td_state = TDS_CLOSE]
  /\ sup' = [sup EXCEPT !.pc = "mark_clients", !.loopctp = @ + 1]
  /\ UNCHANGED <<disk, config, env, shutdownsig, clientcount, cthreads, cthreads_lock,
                 sthreads_lock, sthreads, lpp, fs, lt, sigt, now, ringshut>>

\* Safety valve for deadlock: leave the loop when param.shutdownsig has
\* reached the limit, else count the pass.  Then take param.sthreads_lock
\* for the walk of the server threads.
ValveOpen_Above(sig) == sig > ShutdownLimit

ValveOpen(sig) == sig >= ShutdownLimit

\* Transmission log writing time window check.
TLogWrite(tlogwrite) ==
  IF config.tlogbasedir /\ shutdownsig = 0
  THEN (IF now >= sup.tlog.tlogendint THEN 1 ELSE 0)
  ELSE tlogwrite

Main_Valve ==
  /\ sup.pc = "valve"
  /\ IF shutdownsig > 1 /\ ValveOpen(shutdownsig)
     THEN /\ sup' = [sup EXCEPT !.pc = "after"]
          /\ UNCHANGED <<shutdownsig, sthreads_lock>>
     ELSE /\ sthreads_lock = "free"
          /\ shutdownsig' = IF shutdownsig > 1 THEN shutdownsig + 1 ELSE shutdownsig
          /\ sthreads_lock' = "main"
          /\ sup' = [sup EXCEPT !.pc = "servers", !.loopstp = 1, !.servercount = 0,
                                !.tlogwrite = TLogWrite(@)]
  /\ UNCHANGED <<disk, config, env, clientcount, cthreads, cthreads_lock,
                 sthreads, lpp, fs, lt, cl, sigt, now, ringshut>>

\* One server unit of the walk: count it if it has a thread, join and free
\* a CLOSED one, start a new thread if the slot is empty and no shutdown
\* was requested.  After the last unit: release param.sthreads_lock and
\* take param.cthreads_lock for the walk of the client threads.
SlotEmpty_Any(u) == TRUE

\* stp->td == NULL, after the cleanup of a CLOSED thread.
SlotEmpty(u) == ~u.td \/ u.td_state = TDS_CLOSED

MaySpawn_Never(empty, sig) == FALSE

\* if (stp->td == NULL && !param.shutdownsig)
MaySpawn(empty, sig) == empty /\ sig = 0

Main_Server ==
  /\ sup.pc = "servers"
  /\ IF sup.loopstp > Len(config.listen)
     THEN /\ cthreads_lock = "free"
          /\ cthreads_lock' = "main"
          /\ sthreads_lock' = "free"
          /\ sup' = [sup EXCEPT !.pc = "clients", !.loopstp = 0, !.loopctp = 1]
          /\ UNCHANGED <<sthreads, lt>>
     ELSE LET p == sup.loopstp
              u == sthreads[p]
              closed == u.td /\ u.td_state = TDS_CLOSED
              empty == SlotEmpty(u)
              spawn == MaySpawn(empty, shutdownsig)
          IN /\ closed => lt[p].pc = "exited"
             /\ \E ok \in Outcomes("spawn") :
                  /\ IF spawn /\ ok
                     THEN /\ sthreads' = [sthreads EXCEPT ![p] = InitThreadData(u)]
                          /\ lt' = [lt EXCEPT ![p] = [NoListener EXCEPT !.pc = "start"]]
                     ELSE IF empty
                     THEN /\ sthreads' = [sthreads EXCEPT ![p] = NoThreadData(u)]
                          /\ lt' = [lt EXCEPT ![p] = NoListener]
                     ELSE UNCHANGED <<sthreads, lt>>
                  /\ sup' = [sup EXCEPT
                               !.loopstp = @ + 1,
                               !.servercount = IF u.td THEN @ + 1 ELSE @,
                               !.errno = IF ~spawn THEN @
                                         ELSE IF ok THEN 0 ELSE EAGAIN]
             /\ UNCHANGED <<cthreads_lock, sthreads_lock>>
  /\ UNCHANGED <<disk, config, env, shutdownsig, clientcount, cthreads,
                 lpp, fs, cl, sigt, now, ringshut>>

\* Close idle clients if limit is set and exceeded.
IdleTimeout_AtLimit(c) ==
  /\ config.clienttimeout # 0
  /\ sup.hpcurtime - cl[c].lastxchange >= config.clienttimeout

IdleTimeout(c) ==
  /\ config.clienttimeout # 0
  /\ sup.hpcurtime - cl[c].lastxchange > config.clienttimeout

\* The state the idle check leaves a unit in (under its td_lock).
IdleClose(state) ==
  IF state # TDS_CLOSE /\ state # TDS_CLOSING /\ state # TDS_CLOSED
  THEN TDS_CLOSE ELSE state

\* One client unit of the walk, under param.cthreads_lock.  A CLOSED unit
\* is unlinked, its thread joined, its ClientInfo and thread_data freed and
\* param.clientcount loaded for the decrement.  Any other unit has its
\* statistics updated and is closed if idle.  After the last unit the lock
\* is released.
\* The packets the worker of client c may count while CalcStats runs on its
\* ClientInfo: the counters are read and written without a lock.
Racing(c) ==
  IF /\ env.racing
     /\ cl[c].thr = "running"
     /\ cl[c].td_state = TDS_ACTIVE
     /\ cl[c].cinfo.txpackets[1] < env.packets
  THEN {0, 1} ELSE {0}

\* CalcStats on a ClientInfo whose worker counts k packets of one byte
\* after the rates were computed from the counters and before the counters
\* are read again for the shift to the history values.
CalcStats_Raced(cinfo, lag, nsnow, k) ==
  LET r == CalcStats(cinfo, lag, nsnow)
      Late(c) == IF cinfo.txpackets[1] > 0
                 THEN <<c[1] + k, c[1] + k>> ELSE <<c[1] + k, c[2]>>
  IN IF k = 0 THEN r
     ELSE [r EXCEPT !.txpackets = Late(cinfo.txpackets),
                    !.txbytes = Late(cinfo.txbytes)]

\* if (tlogwrite) WriteTLog (cinfo, 1): the end of the window the last row
\* written for the client belongs to, 0 before a row was written.
WriteTLog(tlogrow) ==
  IF sup.tlogwrite = 1 THEN sup.tlog.tlogendint ELSE tlogrow

Main_Client ==
  /\ sup.pc = "clients"
  /\ IF sup.loopctp > Len(cthreads)
     THEN /\ cthreads_lock' = "free"
          /\ sup' = [sup EXCEPT !.pc = "endcheck", !.loopctp = 0]
          /\ UNCHANGED <<cthreads, cl>>
     ELSE LET c == cthreads[sup.loopctp] IN
          /\ cthreads_lock' = cthreads_lock
          /\ IF cl[c].td_state = TDS_CLOSED
             THEN /\ cthreads' = SubSeq(cthreads, 1, sup.loopctp - 1)
                                  \o SubSeq(cthreads, sup.loopctp + 1, Len(cthreads))
                  /\ cl' = [cl EXCEPT ![c].thr = "joined",
                                      ![c].cinfo_free = @ + 1,
                                      ![c].td_free = @ + 1]
                  /\ sup' = [sup EXCEPT !.pc = "decrement", !.cnt = clientcount]
             ELSE /\ cthreads' = cthreads
                  /\ \E lag \in PercentLag(cl[c].cinfo.reader, env.ring),
                        k \in Racing(c) :
                       cl' = [cl EXCEPT
                                ![c].cinfo = CalcStats_Raced(@, lag, now, k),
                                ![c].tlogrow = WriteTLog(@),
                                ![c].td_state = IF IdleTimeout(c)
                                                THEN IdleClose(@) ELSE @]
                  /\ sup' = [sup EXCEPT !.loopctp = @ + 1]
  /\ UNCHANGED <<disk, config, env, shutdownsig, clientcount,
                 sthreads_lock, sthreads, lpp, fs, lt, sigt, now, ringshut>>

\* if (param.clientcount > 0) param.clientcount--: the store.
Main_Decrement ==
  /\ sup.pc = "decrement"
  /\ clientcount' = IF sup.cnt > 0 THEN sup.cnt - 1 ELSE clientcount
  /\ sup' = [sup EXCEPT !.pc = "clients"]
  /\ UNCHANGED <<disk, config, env, shutdownsig, cthreads, cthreads_lock,
                 sthreads_lock, sthreads, lpp, fs, lt, cl, sigt, now, ringshut>>

\* All done if shutting down and no threads left; else sleep and loop.
CleanExit == shutdownsig >= 2 /\ clientcount = 0 /\ sup.servercount = 0

\* The time after the throttle: a tenth of a second goes by in a shutdown,
\* else the loop sleeps until time (NULL) has moved on by a second.
Slept == IF env.clock = 0 \/ shutdownsig # 0 THEN now ELSE now + 1

\* cfstat.st_mtime: the time the configuration file was last written, zero
\* for a file not written since it was read at startup.
St_mtime ==
  LET T == {t \in env.touched : t <= now}
  IN IF T = {} THEN 0 ELSE CHOOSE t \in T : \A u \in T : u <= t

\* ReadConfigFile (config.configfile, 1, mtime): what it returns, the
\* snapshot and param.configfilemtime it leaves.  A failed read keeps the
\* previous snapshot.
ReadConfigFile(mtime) ==
  {[ret |-> 0, config |-> env.cfnew, configfilemtime |-> mtime]}
    \cup (IF "ReadConfigFile" \in env.faults
          THEN {[ret |-> -1, config |-> config, configfilemtime |-> m] :
                  m \in {sup.configfilemtime, mtime}}
          ELSE {})

\* Check for config file updates: main() after the check, and the snapshot.
ConfigCheck ==
  IF config.configfile /\ St_mtime > sup.configfilemtime
  THEN {[config |-> r.config,
         sup |-> [sup EXCEPT !.configfilemtime = r.configfilemtime,
                             !.calls = Called(@, "ReadConfigFile", r.ret),
                             !.configreset = 1]] :
          r \in ReadConfigFile(St_mtime)}
  ELSE {[config |-> config, sup |-> sup]}

\* Reset transfer log writing time windows using the current time as the
\* reference.
TLogReset(cfg, s) ==
  cfg.tlogbasedir /\ shutdownsig = 0 /\ (s.tlogwrite = 1 \/ s.configreset = 1)

\* The end of a pass of the loop: the check for config file updates, the
\* reset of the transfer log window, the test for a finished shutdown and
\* the throttle, after which configreset is zero again.
Main_EndCheck ==
  /\ sup.pc = "endcheck"
  /\ \E r \in ConfigCheck :
       /\ config' = r.config
       /\ IF TLogReset(r.config, r.sup)
          THEN \E ok \in Outcomes("CalcIntWin") :
                 LET s == [r.sup EXCEPT
                             !.tlogwrite = 0,
                             !.calls = Called(@, "CalcIntWin", IF ok THEN 0 ELSE -1),
                             !.tlog = IF ok
                                      THEN CalcIntWin(now, r.config.tloginterval)
                                      ELSE @]
                 IN IF ~ok
                    THEN /\ sup' = [s EXCEPT !.pc = "returned", !.exit = 1]
                         /\ now' = now
                    ELSE /\ Slept <= env.clock + 1
                         /\ sup' = [s EXCEPT !.pc = "top", !.configreset = 0]
                         /\ now' = Slept
          ELSE IF CleanExit
               THEN /\ sup' = [r.sup EXCEPT !.pc = "after"]
                    /\ now' = now
               ELSE /\ Slept <= env.clock + 1
                    /\ sup' = [r.sup EXCEPT !.pc = "top", !.configreset = 0]
                    /\ now' = Slept
  /\ UNCHANGED <<disk, env, shutdownsig, clientcount, cthreads, cthreads_lock,
                 sthreads_lock, sthreads, lpp, fs, lt, cl, sigt, ringshut>>

\* Shutdown ring buffer; return 1 if RingShutdown reports an error.
Main_RingShutdown_Skipped ==
  /\ sup.pc = "after"
  /\ ringshut' = ringshut
  /\ sup' = [sup EXCEPT !.pc = "cancel"]
  /\ UNCHANGED <<disk, config, env, shutdownsig, clientcount, cthreads, cthreads_lock,
                 sthreads_lock, sthreads, lpp, fs, lt, cl, sigt, now>>

Main_RingShutdown ==
  /\ sup.pc = "after"
  /\ ringshut' = ringshut + 1
  /\ \E ok \in Outcomes("RingShutdown") :
       sup' = IF ok THEN [sup EXCEPT !.pc = "cancel"]
              ELSE [sup EXCEPT !.pc = "returned", !.exit = 1]
  /\ UNCHANGED <<disk, config, env, shutdownsig, clientcount, cthreads, cthreads_lock,
                 sthreads_lock, sthreads, lpp, fs, lt, cl, sigt, now>>

\* Cancel and join the signal handling thread; return 0.
Main_Return ==
  /\ sup.pc = "cancel"
  /\ sigt' = [sigt EXCEPT !.state = "joined"]
  /\ sup' = [sup EXCEPT !.pc = "returned", !.exit = 0]
  /\ UNCHANGED <<disk, config, env, shutdownsig, clientcount, cthreads, cthreads_lock,
                 sthreads_lock, sthreads, lpp, fs, lt, cl, now, ringshut>>

(***************************************************************************)
(* Configurations and runs.                                                *)
(***************************************************************************)
\* The defaults of struct config_s, with one TCP endpoint.
DefaultConfig ==
  [matchips |-> <<>>, rejectips |-> <<>>, writeips |-> <<>>,
   trustedips |-> <<>>, limitips |-> <<>>,
   maxclients |-> 600, maxclientsperip |-> 0, clienttimeout |-> 3600,
   autorecovery |-> 1, listen |-> <<FAMILY_IPv4>>,
   configfile |-> FALSE, tlogbasedir |-> FALSE, tloginterval |-> 24]

\* A run that meets no peer, no failing call and no signal.
QuietEnv ==
  [peers |-> {}, garbage |-> {NoAddr}, limit |-> 0, faults |-> {}, signals |-> 0,
   sent |-> {}, clock |-> 0, ring |-> EmptyRing, disk |-> FreshDir,
   touched |-> {}, cfnew |-> DefaultConfig,
   packets |-> MaxPackets, racing |-> FALSE]

\* One TCP endpoint, one connection per address, a malloc that may fail.
RunConfig == [DefaultConfig EXCEPT !.maxclientsperip = 1]

RunEnv ==
  [QuietEnv EXCEPT !.peers = {IPv4(10, 0, 0, 5)}, !.limit = MaxConn,
                   !.faults = {"malloc_cthread"}]

Init == InitWith({RunConfig}, {RunEnv})

ListenAdmit(p) ==
  \/ Listen_Start(p) \/ Listen_Loop(p) \/ Listen_Accept(p)
  \/ Listen_Match(p) \/ Listen_Reject(p) \/ Listen_PerIP(p) \/ Listen_Cap(p)
  \/ Listen_Alloc(p) \/ Listen_Create(p) \/ Listen_Link(p)
  \/ Listen_CountLoad(p) \/ Listen_CountStore(p)

ListenExit(p) == Listen_Closed(p) \/ Listen_Return(p)

MainLoop ==
  \/ Main_Top \/ Main_Valve \/ Main_Server \/ Main_Client \/ Main_EndCheck

\* The server running: connections come and go, no shutdown is requested.
Next ==
  \/ \E p \in Ports : ListenAdmit(p) \/ ListenExit(p)
  \/ \E c \in DOMAIN cl : Client_Active(c) \/ Client_Closed(c)
  \/ MainLoop \/ Main_Decrement

Spec == Init /\ [][Next]_vars

\* Two TCP endpoints, every call succeeds.
RaceConfig == [RunConfig EXCEPT !.listen = <<FAMILY_IPv4, FAMILY_IPv4>>]

RaceEnv == [RunEnv EXCEPT !.faults = {}]

InitRace == InitWith({RaceConfig}, {RaceEnv})

NextRace ==
  \/ \E p \in Ports : ListenAdmit(p)
  \/ \E c \in DOMAIN cl : Client_Active(c) \/ Client_Closed(c)
  \/ MainLoop \/ Main_Decrement

SpecRace == InitRace /\ [][NextRace]_vars

\* The IP policies: a match list, a reject list, a write list and a trusted
\* list that overlap, and both caps.
PolicyConfig ==
  [DefaultConfig EXCEPT
     !.matchips = <<IPNet4(IPv4(10, 0, 0, 0), Mask8)>>,
     !.rejectips = <<IPNet4(IPv4(10, 0, 0, 5), Mask32)>>,
     !.writeips = <<IPNet4(IPv4(10, 0, 0, 5), Mask32),
                    IPNet4(IPv4(10, 0, 0, 6), Mask32),
                    IPNet4(IPv4(192, 0, 2, 1), Mask32)>>,
     !.trustedips = <<IPNet4(IPv4(10, 0, 0, 5), Mask32),
                      IPNet4(IPv4(192, 0, 2, 1), Mask32)>>,
     !.maxclientsperip = 1,
     !.maxclients = 2]

PolicyEnv ==
  [QuietEnv EXCEPT !.peers = {IPv4(10, 0, 0, 5), IPv4(10, 0, 0, 6),
                              IPv4(10, 0, 0, 7), IPv4(192, 0, 2, 1)},
                   !.limit = MaxConnPolicy]

\* No global cap, a per-address cap of 2, the loopback address may write.
LocalConfig ==
  [DefaultConfig EXCEPT
     !.writeips = <<IPNet4(IPv4(127, 0, 0, 1), Mask32)>>,
     !.maxclientsperip = 2,
     !.maxclients = 0]

LocalEnv ==
  [QuietEnv EXCEPT !.peers = {IPv4(127, 0, 0, 1), IPv4(10, 0, 0, 5)},
                   !.limit = MaxConnPolicy]

InitPolicy ==
  \/ InitWith({PolicyConfig}, {PolicyEnv})
  \/ InitWith({LocalConfig}, {LocalEnv})

NextPolicy ==
  \/ \E p \in Ports : ListenAdmit(p) \/ Listen_Reserve(p)
  \/ \E c \in DOMAIN cl : Client_Active(c) \/ Client_Closed(c)
  \/ MainLoop \/ Main_Decrement

SpecPolicy == InitPolicy /\ [][NextPolicy]_vars

\* The global cap with its reserve: 5 clients, 10.0.0.0/8 may write.
ReserveConfig ==
  [DefaultConfig EXCEPT
     !.writeips = <<IPNet4(IPv4(10, 0, 0, 0), Mask8)>>,
     !.maxclients = 5]

ReserveEnv ==
  [QuietEnv EXCEPT !.peers = {IPv4(192, 0, 2, 1), IPv4(10, 0, 0, 1)},
                   !.limit = MaxConnReserve]

InitReserve == InitWith({ReserveConfig}, {ReserveEnv})

\* Connections are admitted and none ends.
NextReserve ==
  \/ \E p \in Ports : ListenAdmit(p) \/ Listen_Reserve(p)
  \/ MainLoop

SpecReserve == InitReserve /\ [][NextReserve]_vars

\* The same policies on a UNIX endpoint, whose listener begins with a stack
\* that holds no address or the bytes of an IPv4 address.
UnixConfig ==
  [PolicyConfig EXCEPT
     !.listen = <<FAMILY_UNIX>>,
     !.limitips = <<[IPNet4(IPv4(10, 0, 0, 0), Mask8) EXCEPT !.limitstr = "NET_*"]>>]

UnixEnv ==
  [QuietEnv EXCEPT !.garbage = {NoAddr, IPv4(10, 0, 0, 6)}, !.limit = MaxConn]

InitUnix == InitWith({UnixConfig}, {UnixEnv})

NextUnix ==
  \/ \E p \in Ports : ListenAdmit(p)
  \/ \E c \in DOMAIN cl : Client_Active(c) \/ Client_Closed(c)
  \/ MainLoop \/ Main_Decrement

SpecUnix == InitUnix /\ [][NextUnix]_vars

\* Limit and write lists with IPv4 and IPv6 entries that overlap, in both
\* orders; peers of both families whose leading octets are the same.
Net10 == [IPNet4(IPv4(10, 0, 0, 0), Mask8) EXCEPT !.limitstr = "NET_*"]

Host5 == [IPNet4(IPv4(10, 0, 0, 5), Mask32) EXCEPT !.limitstr = "HOST_*"]

Net6 ==
  [IPNet6(IPv6(<<10>>), IPv6(<<255>>)) EXCEPT !.limitstr = "SIX_*"]

Lists ==
  {<<Net10, Host5, Net6>>, <<Host5, Net10>>, <<Net6, Host5>>, <<Net6>>}

MatchConfigs ==
  {[DefaultConfig EXCEPT !.limitips = l, !.writeips = w] :
     l \in Lists, w \in {<<Host5>>, <<Net6, Net10>>}}

MatchEnv ==
  [QuietEnv EXCEPT !.peers = {IPv4(10, 0, 0, 5), IPv4(10, 0, 0, 6),
                              IPv4(192, 0, 2, 1), IPv6(<<10, 0, 0, 5>>),
                              IPv6(<<32, 1>>)},
                   !.limit = MaxConnDrain]

InitMatch == InitWith(MatchConfigs, {MatchEnv})

NextMatch ==
  \/ \E p \in Ports : ListenAdmit(p)
  \/ \E c \in DOMAIN cl : Client_Active(c) \/ Client_Closed(c)
  \/ MainLoop \/ Main_Decrement

SpecMatch == InitMatch /\ [][NextMatch]_vars

\* A UNIX endpoint, one termination signal.
ShutdownConfig == [DefaultConfig EXCEPT !.listen = <<FAMILY_UNIX>>]

ShutdownEnv ==
  [QuietEnv EXCEPT !.peers = {IPv4(10, 0, 0, 5)},
                   !.garbage = {NoAddr, IPv4(10, 0, 0, 5)},
                   !.limit = MaxConn, !.signals = 1,
                   !.faults = {"RingShutdown"}]

InitShutdown == InitWith({ShutdownConfig}, {ShutdownEnv})

NextShutdown ==
  \/ \E p \in Ports : ListenAdmit(p) \/ ListenExit(p)
  \/ \E c \in DOMAIN cl :
       Client_Active(c) \/ Client_Closing(c) \/ Client_Closed(c)
  \/ MainLoop \/ Main_Decrement
  \/ Signal_Term \/ Main_MarkServers \/ Main_MarkClient \/ Main_MarkWrite
  \/ Main_RingShutdown \/ Main_Return

SpecShutdown == InitShutdown /\ [][NextShutdown]_vars

\* The same shutdown with a single connection.
DrainEnv == [ShutdownEnv EXCEPT !.limit = MaxConnDrain]

InitDrain == InitWith({ShutdownConfig}, {DrainEnv})

SpecDrain == InitDrain /\ [][NextShutdown]_vars

\* The same run with threads that are scheduled: main() and the signal
\* thread go on whenever they can; a listener that asks for a list lock
\* gets it if the lock is free again and again, as it is while main()
\* sleeps between two passes.
Scheduled ==
  /\ WF_vars(MainLoop \/ Main_Decrement \/ Main_MarkServers \/ Main_MarkClient
                \/ Main_MarkWrite \/ Main_RingShutdown \/ Main_Return)
  /\ WF_vars(Signal_Term)
  /\ \A p \in 1..Len(ShutdownConfig.listen) :
       SF_vars(ListenAdmit(p)) /\ WF_vars(ListenExit(p))

SpecLive == SpecDrain /\ Scheduled

\* A shutdown during which a second termination signal is sent.
ResignalEnv == [DrainEnv EXCEPT !.signals = 2]

InitResignal == InitWith({ShutdownConfig}, {ResignalEnv})

SpecResignal == InitResignal /\ [][NextShutdown]_vars

\* A transfer log, a clock that runs and a shutdown.
TLogConfig ==
  [DefaultConfig EXCEPT !.tlogbasedir = TRUE, !.tloginterval = TLogInterval]

TLogEnv ==
  [QuietEnv EXCEPT !.peers = {IPv4(10, 0, 0, 5)}, !.limit = MaxConnDrain,
                   !.signals = 1, !.clock = MaxClock]

InitTLog == InitWith({TLogConfig}, {TLogEnv})

SpecTLog == InitTLog /\ [][NextShutdown]_vars

\* One connection and a few signals sent to the process, taken in any
\* order: SIGINT with SIGPIPE, or SIGUSR1 with SIGHUP and SIGPIPE, or
\* SIGSEGV with SIGUSR1.
AllSignals == {"SIGINT", "SIGUSR1", "SIGHUP", "SIGPIPE", "SIGSEGV"}

SignalEnv(sent) ==
  [QuietEnv EXCEPT !.peers = {IPv4(10, 0, 0, 5)}, !.limit = MaxConnDrain,
                   !.sent = sent]

InitSignal ==
  InitWith({DefaultConfig}, {SignalEnv({"SIGINT", "SIGPIPE"}),
                             SignalEnv({"SIGUSR1", "SIGHUP", "SIGPIPE"}),
                             SignalEnv({"SIGSEGV", "SIGUSR1"})})

NextSignal ==
  \/ \E p \in Ports : ListenAdmit(p) \/ ListenExit(p)
  \/ \E c \in DOMAIN cl :
       Client_Active(c) \/ Client_Closing(c) \/ Client_Closed(c)
  \/ MainLoop \/ Main_Decrement
  \/ Main_MarkServers \/ Main_MarkClient \/ Main_MarkWrite
  \/ Main_RingShutdown \/ Main_Return
  \/ \E sig \in AllSignals : Signal_Other(sig)

SpecSignal == InitSignal /\ [][NextSignal]_vars

\* A clock that runs, one TCP endpoint, clients that exchange data or sit
\* idle; ClientTimeout is 1 second, or 0 (no timeout).
IdleConfig == [DefaultConfig EXCEPT !.clienttimeout = 1]

NoTimeoutConfig == [DefaultConfig EXCEPT !.clienttimeout = 0]

IdleEnv ==
  [QuietEnv EXCEPT !.peers = {IPv4(10, 0, 0, 5)}, !.limit = MaxConnTimed,
                   !.clock = MaxClock]

InitIdle == InitWith({IdleConfig, NoTimeoutConfig}, {IdleEnv})

NextIdle ==
  \/ \E p \in Ports : ListenAdmit(p)
  \/ \E c \in DOMAIN cl :
       \/ Client_Active(c) \/ Client_Closing(c) \/ Client_Closed(c)
       \/ Client_Send(c, 1)
  \/ MainLoop \/ Main_Decrement

SpecIdle == InitIdle /\ [][NextIdle]_vars

\* A configuration file that is written while the server runs and may fail
\* to be read again, a transfer log with a window of two seconds, one peer.
ReloadConfig ==
  [DefaultConfig EXCEPT !.configfile = TRUE, !.tlogbasedir = TRUE,
                        !.tloginterval = TLogInterval]

ReloadEnv ==
  [IdleEnv EXCEPT !.touched = {1}, !.faults = {"ReadConfigFile", "CalcIntWin"},
                  !.cfnew = [ReloadConfig EXCEPT !.clienttimeout = 1]]

InitReload == InitWith({ReloadConfig}, {ReloadEnv})

SpecReload == InitReload /\ [][NextIdle]_vars

\* A ring whose earliest and latest packets lie anywhere in the buffer, at
\* offsets that wrapped or not; clients that position their reader on any
\* offset of the buffer.  No timeout, a clock that stands still.
Rings ==
  {[earliestoffset |-> e, latestoffset |-> l, maxoffset |-> MaxOffset] :
     e \in 0..MaxOffset, l \in 0..MaxOffset}

LagEnv(ring) ==
  [QuietEnv EXCEPT !.peers = {IPv4(10, 0, 0, 5)}, !.limit = MaxConnTimed,
                   !.ring = ring]

InitLag == InitWith({NoTimeoutConfig}, {LagEnv(ring) : ring \in Rings})

NextLag ==
  \/ \E p \in Ports : ListenAdmit(p)
  \/ \E c \in DOMAIN cl : Client_Active(c)
  \/ \E c \in DOMAIN cl, offset \in 0..MaxOffset : Client_Read(c, offset)
  \/ MainLoop

SpecLag == InitLag /\ [][NextLag]_vars

\* A clock that runs and clients that send and receive packets, or do
\* neither, between two passes of the loop.  No timeout.
InitRate == InitWith({NoTimeoutConfig}, {IdleEnv})

NextRate ==
  \/ \E p \in Ports : ListenAdmit(p)
  \/ \E c \in DOMAIN cl :
       \/ Client_Active(c) \/ Client_Send(c, 2) \/ Client_Recv(c, 3)
  \/ MainLoop

SpecRate == InitRate /\ [][NextRate]_vars

\* The same clients, sending while CalcStats runs on their counters.
CountEnv == [IdleEnv EXCEPT !.racing = TRUE, !.packets = MaxPackets + 1]

InitCount == InitWith({NoTimeoutConfig}, {CountEnv})

SpecCount == InitCount /\ [][NextRate]_vars

\* The server started on a ring directory that holds no ring, a ring of
\* the current format, a corrupt one or one of format version 1 or 2, with
\* or without .corrupt files of an earlier recovery; AutoRecovery is 0, 1
\* or 2 and any call on the ring or its files may fail.
StartConfig(autorecovery) == [DefaultConfig EXCEPT !.autorecovery = autorecovery]

StartEnv(held, backup) ==
  [QuietEnv EXCEPT !.disk = RingDir(held, backup),
                   !.faults = {"RingInitialize", "rename", "unlink",
                               "LoadBufferV1"}]

InitStartup ==
  InitAt("ringinit",
         {StartConfig(a) : a \in {0, 1, 2}},
         {StartEnv(held, backup) :
            held \in {"none", "current", "corrupt", "version1", "version2"},
            backup \in {"none", "earlier"}})

NextStartup ==
  \/ Main_RingInit \/ Main_Recover \/ Main_ReInit \/ Main_Convert
  \/ Main_Cleanup \/ MainLoop

SpecStartup == InitStartup /\ [][NextStartup]_vars

\* A listener that loses its loop on a failed malloc for a client, and a
\* main loop whose InitThreadData or pthread_create for a server thread
\* may fail.  No shutdown is requested.
RestartEnv ==
  [QuietEnv EXCEPT !.peers = {IPv4(10, 0, 0, 5)}, !.limit = MaxConnTimed,
                   !.faults = {"malloc_cthread", "pthread_create", "spawn"}]

InitRestart == InitWith({DefaultConfig}, {RestartEnv})

NextRestart ==
  \/ \E p \in Ports : ListenAdmit(p) \/ ListenExit(p)
  \/ \E c \in DOMAIN cl : Client_Active(c) \/ Client_Closed(c)
  \/ MainLoop \/ Main_Decrement

SpecRestart == InitRestart /\ [][NextRestart]_vars

\* The same failures on a UNIX endpoint.
InitRespawn == InitWith({ShutdownConfig}, {RestartEnv})

SpecRespawn == InitRespawn /\ [][NextRestart]_vars

(***************************************************************************)
(* The claims.                                                             *)
(***************************************************************************)
\* The client units that exist side by side: their thread was created and
\* has not been joined.
Concurrent == {c \in DOMAIN cl : cl[c].thr = "running"}

\* The units of the list that are not TDS_CLOSED.
NotClosed == {i \in 1..Len(cthreads) : cl[cthreads[i]].td_state # TDS_CLOSED}

\* main() has left its watchdog loop.
LoopLeft == sup.pc \in {"after", "cancel", "returned"}

\* The client threads that still run: created, and not yet TDS_CLOSED.
Runnable == {c \in DOMAIN cl : cl[c].thr = "running" /\ cl[c].td_state # TDS_CLOSED}

\* The address is on the write list (read off the configuration).
OnWriteList(addr) == MatchIP(config.writeips, addr) # 0

\* The place of a check in the documented order.
CheckRank(tag) ==
  CASE tag = "match" -> 1
    [] tag = "reject" -> 2
    [] tag = "write" -> 3
    [] tag = "ipcount" -> 4
    [] tag = "count" -> 5

\* The last thing evaluated for a connection that check why rejected.
RejectedAt(why) ==
  CASE why = "match" -> "match"
    [] why = "reject" -> "reject"
    [] why = "perip" -> "ipcount"
    [] why = "cap" -> "count"

\* C1: with one listener and maxclients > 0 the clients that exist side by
\* side never exceed maxclients + RESERVECONNECTIONS, and no connection with
\* write permission is let past the cap when the count it met had already
\* reached maxclients + RESERVECONNECTIONS.
C1_ReserveNeverExceeded ==
  config.maxclients > 0 =>
    /\ Cardinality(Concurrent) <= config.maxclients + RESERVECONNECTIONS
    /\ \A p \in Ports :
         (lt[p].pc = "alloc" /\ HasWrite(lt[p].paddr))
           => lt[p].seen < config.maxclients + RESERVECONNECTIONS

\* C2: every connection that got a client record has an address that is in
\* the match list (or the match list is empty) and is not in the reject
\* list, whatever the write and trusted lists say.
C2_AdmittedPassedMatchAndReject ==
  \A c \in DOMAIN cl :
    /\ config.matchips = <<>> \/ MatchIP(config.matchips, cl[c].addr) # 0
    /\ MatchIP(config.rejectips, cl[c].addr) = 0

\* C2 witness: a connection from an address on the write and trusted lists
\* was rejected by the reject list while another connection was admitted.
C2_Witness ==
  \E p \in Ports :
    /\ lt[p].res = "reject"
    /\ OnWriteList(lt[p].paddr)
    /\ MatchIP(config.trustedips, lt[p].paddr) # 0
    /\ cthreads # <<>>

\* C3: the checks made for a connection come in the order match list,
\* reject list, per-address cap, global cap, and the check that rejects a
\* connection is the last thing evaluated for it.
C3_ChecksInOrder ==
  \A p \in Ports :
    LET ch == lt[p].checks
    IN /\ \A i, j \in DOMAIN ch : i < j => CheckRank(ch[i]) < CheckRank(ch[j])
       /\ lt[p].res \in {"match", "reject", "perip", "cap"}
            => ch # <<>> /\ ch[Len(ch)] = RejectedAt(lt[p].res)

\* C3 witness: a connection passed the match and reject lists and was then
\* rejected by the per-address cap, the client count never read.
C3_Witness ==
  \E p \in Ports :
    /\ lt[p].res = "perip"
    /\ lt[p].checks = <<"match", "reject", "write", "ipcount">>

\* C4: with maxclientsperip > 0, no address without write permission has
\* more than maxclientsperip units in the client list.
C4_PerIPCapHolds ==
  config.maxclientsperip > 0 =>
    \A a \in env.peers :
      ~HasWrite(a) => ClientIPCount(a) <= config.maxclientsperip

\* C5: a connection from an address on the write list is never rejected by
\* the per-address cap, and the per-address count is not taken for it.
C5_WriteSkipsPerIPCap ==
  \A p \in Ports :
    OnWriteList(lt[p].paddr) =>
      /\ lt[p].res # "perip"
      /\ \A i \in DOMAIN lt[p].checks : lt[p].checks[i] # "ipcount"

\* C5 witness: a connection from a write address was admitted although its
\* address already had maxclientsperip units in the list.
C5_Witness ==
  \E p \in Ports :
    /\ config.maxclientsperip > 0
    /\ lt[p].res = "admitted"
    /\ OnWriteList(lt[p].paddr)
    /\ ClientIPCount(lt[p].paddr) > config.maxclientsperip

\* C6: the global cap check rejects every connection without write
\* permission that meets param.clientcount >= maxclients when maxclients > 0
\* (no client record is made), and rejects nothing when maxclients is 0.
C6_CapRejectsNonWrite ==
  [][\A p \in Ports :
       (lt[p].pc = "cap" /\ lt'[p].pc # "cap") =>
         /\ (config.maxclients > 0 /\ clientcount >= config.maxclients
               /\ ~OnWriteList(lt[p].paddr))
              => (lt'[p].res = "cap" /\ lt'[p].pc = "loop" /\ cl' = cl)
         /\ config.maxclients = 0
              => (lt'[p].res = "none" /\ lt'[p].pc = "alloc")]_vars

\* C6 witness: a connection without write permission was rejected by the
\* global cap with the list holding maxclients units.
C6_Witness ==
  \E p \in Ports :
    /\ lt[p].res = "cap"
    /\ ~OnWriteList(lt[p].paddr)
    /\ lt[p].seen >= config.maxclients
    /\ Len(cthreads) = config.maxclients

\* C7: when the client walk of a pass ends, param.clientcount is the number
\* of units in the list that are not TDS_CLOSED.
C7_CountIsLiveClients ==
  [][(sup.pc = "clients" /\ sup'.pc = "endcheck")
       => clientcount' = Cardinality(NotClosed')]_vars

\* C8: no thread_data is freed while its thread has not been joined: a
\* client's is freed only with no thread or a joined one, a listener's only
\* once the thread has returned.
C8_FreedOnlyAfterJoin ==
  /\ \A c \in DOMAIN cl : cl[c].td_free > 0 => cl[c].thr \in {"none", "joined"}
  /\ \A p \in Ports : ~sthreads[p].td => lt[p].pc = "none"

\* C9: when main() leaves its loop after a shutdown request, every client
\* thread that still runs has been told to close: its state is TDS_CLOSE or
\* TDS_CLOSING.
C9_AllClientsToldToClose ==
  [][(~LoopLeft /\ LoopLeft')
       => \A c \in Runnable' : cl'[c].td_state \in {TDS_CLOSE, TDS_CLOSING}]_vars

\* C10: when main() returns, every listening socket is closed, every UNIX
\* socket path is unlinked and no client thread still runs.
C10_NothingLeftAtReturn ==
  [][(sup.pc # "returned" /\ sup'.pc = "returned")
       => /\ \A p \in Ports : lpp'[p].socket = -1
          /\ \A p \in Ports : lpp'[p].options = FAMILY_UNIX => p \notin fs'
          /\ Runnable' = {}]_vars

\* C11: once main() has seen the shutdown request (shutdownsig > 1) every
\* pass counts shutdownsig up by one, the count never passes ShutdownLimit,
\* the pass that meets the limit leaves the loop whatever the workers do,
\* and what main() does after the loop is the ring shutdown.
C11_ValveEndsDrain ==
  /\ [](shutdownsig <= ShutdownLimit)
  /\ [][(sup.pc = "valve" /\ sup' # sup /\ shutdownsig > 1)
         => IF shutdownsig >= ShutdownLimit THEN sup'.pc = "after"
            ELSE shutdownsig' = shutdownsig + 1]_vars
  /\ [][(sup.pc = "after" /\ sup' # sup) => ringshut' = ringshut + 1]_vars

\* C11 witness: the loop was left at the limit with a client thread that
\* never reached TDS_CLOSED, and the ring was shut down.
C11_Witness ==
  /\ sup.pc = "cancel"
  /\ shutdownsig = ShutdownLimit
  /\ ringshut = 1
  /\ Runnable # {}

C13_IdleCloseRule ==
  [][(sup.pc = "clients" /\ sup' # sup /\ sup.loopctp <= Len(cthreads)) =>
       LET c == cthreads[sup.loopctp]
           state == cl[c].td_state
           idle == /\ config.clienttimeout > 0
                   /\ sup.hpcurtime - cl[c].lastxchange > config.clienttimeout
                   /\ state \notin {TDS_CLOSE, TDS_CLOSING, TDS_CLOSED}
       IN state # TDS_CLOSED =>
            ((state # TDS_CLOSE /\ cl'[c].td_state = TDS_CLOSE) <=> idle)]_vars

\* C13 witness: the walk has set to TDS_CLOSE a client that had exchanged
\* data and then sat idle for more than clienttimeout seconds.
C13_Witness ==
  /\ shutdownsig = 0
  /\ sup.pc = "endcheck"
  /\ \E c \in Linked : /\ cl[c].td_state = TDS_CLOSE
                        /\ cl[c].cinfo.txpackets[1] > 0
                        /\ sup.hpcurtime - cl[c].lastxchange > config.clienttimeout

\* The thread states of all units, server and client.
UnitStates ==
  <<[p \in Ports |-> sthreads[p].td_state],
    [c \in DOMAIN cl |-> cl[c].td_state]>>

\* C14: a SIGTERM or SIGINT taken by the signal thread sets shutdownsig to
\* 1; any other signal it takes leaves shutdownsig, the state of every
\* unit, the client list and the client count as they were; SIGPIPE is
\* never what sigwait gives it.
C14_SignalEffects ==
  [][(sigt'.sent # sigt.sent \/ sigt'.pending # sigt.pending) =>
       /\ sigt'.sig # "SIGPIPE"
       /\ IF sigt'.sig \in {"SIGTERM", "SIGINT"}
          THEN shutdownsig' = 1
          ELSE UNCHANGED <<shutdownsig, UnitStates, cthreads, clientcount>>]_vars

\* C14 witness: with a client in the list, SIGUSR1 and SIGHUP were taken
\* and left shutdownsig at 0; SIGPIPE was sent and is still pending.
C14_Witness ==
  /\ sigt.sig \in {"SIGUSR1", "SIGHUP"}
  /\ shutdownsig = 0
  /\ cthreads # <<>>
  /\ sigt.sent = {"SIGPIPE"}

(***************************************************************************)
(* C15: for every client whose reader has a valid position, the percent    *)
(* lag CalcStats computed is between 0 and 100, whatever the reader,       *)
(* earliest, latest and maximum offsets are.                               *)
(***************************************************************************)
C15_LagInRange ==
  \A c \in DOMAIN cl :
    cl[c].cinfo.reader.valid =>
      (0 <= cl[c].cinfo.percentlag /\ cl[c].cinfo.percentlag <= 100)

(***************************************************************************)
(* C16: if a client's tx (rx) packet and byte counters did not change      *)
(* between two consecutive CalcStats calls, the tx (rx) packet and byte    *)
(* rates after the second call are exactly 0, counters of 0 included.      *)
(* The history values are the counters as the previous call left them:     *)
(* every call ends with history equal to the counters, and nothing else    *)
(* writes the history.                                                     *)
(***************************************************************************)
\* The step is the CalcStats call of the main loop on client c.
CalcStatsCall(c) ==
  /\ sup.pc = "clients"
  /\ sup.loopctp <= Len(cthreads)
  /\ cthreads[sup.loopctp] = c
  /\ cl[c].td_state # TDS_CLOSED
  /\ sup'.loopctp = sup.loopctp + 1

History(cinfo) ==
  <<cinfo.txpackets[2], cinfo.txbytes[2], cinfo.rxpackets[2], cinfo.rxbytes[2]>>

Counters(cinfo) ==
  <<cinfo.txpackets[1], cinfo.txbytes[1], cinfo.rxpackets[1], cinfo.rxbytes[1]>>

\* count / deltasec is exactly 0.
ZeroRate(rate) == rate.count = 0 /\ rate.deltasec > 0

C16_UnchangedGivesZero ==
  [][\A c \in DOMAIN cl :
       /\ CalcStatsCall(c) => History(cl'[c].cinfo) = Counters(cl'[c].cinfo)
       /\ History(cl'[c].cinfo) # History(cl[c].cinfo) => CalcStatsCall(c)
       /\ (CalcStatsCall(c) /\ cl[c].cinfo.ratetime # 0) =>
            /\ (/\ cl[c].cinfo.txpackets[1] = cl[c].cinfo.txpackets[2]
                /\ cl[c].cinfo.txbytes[1] = cl[c].cinfo.txbytes[2])
               => (/\ ZeroRate(cl'[c].cinfo.txpacketrate)
                   /\ ZeroRate(cl'[c].cinfo.txbyterate))
            /\ (/\ cl[c].cinfo.rxpackets[1] = cl[c].cinfo.rxpackets[2]
                /\ cl[c].cinfo.rxbytes[1] = cl[c].cinfo.rxbytes[2])
               => (/\ ZeroRate(cl'[c].cinfo.rxpacketrate)
                   /\ ZeroRate(cl'[c].cinfo.rxbyterate))]_vars

\* C16 witness: a client sent a packet and received none; a call computed a
\* tx rate, a later call found the counters as the call before left them
\* and set the tx rates to 0 over a positive time; the rx rates are 0.
C16_Witness ==
  \E c \in DOMAIN cl :
    /\ cl[c].cinfo.txpackets = <<1, 1>>
    /\ cl[c].cinfo.txbytes = <<2, 2>>
    /\ cl[c].cinfo.rxpackets = <<0, 0>>
    /\ cl[c].cinfo.ratetime = now
    /\ now > 1
    /\ ZeroRate(cl[c].cinfo.txpacketrate)
    /\ ZeroRate(cl[c].cinfo.txbyterate)
    /\ ZeroRate(cl[c].cinfo.rxpacketrate)
    /\ sup.pc = "endcheck"

(***************************************************************************)
(* C17: startup reaches the loop only if the ring initialisation returned  *)
(* 0, or returned -1 or a positive version with AutoRecovery 1 or 2 and    *)
(* the one re-initialisation returned 0.  After -2, or any error with      *)
(* AutoRecovery 0, the process exits non-zero and no ring file was renamed *)
(* or deleted.  After a failed re-initialisation the process exits         *)
(* non-zero; RingInitialize is never called a third time.                  *)
(***************************************************************************)
\* main() is in its watchdog loop.
InLoop == sup.pc \in {"top", "valve", "servers", "clients", "endcheck"}

\* The calls of RingInitialize so far.
Inits == SelectSeq(sup.calls, LAMBDA c : c.call = "RingInitialize")

C17_StartupGate ==
  /\ Len(Inits) <= 2
  /\ InLoop =>
       \/ Len(Inits) = 1 /\ Inits[1].ret = 0
       \/ /\ Len(Inits) = 2
          /\ Inits[1].ret = -1 \/ Inits[1].ret > 0
          /\ config.autorecovery \in {1, 2}
          /\ Inits[2].ret = 0
  /\ (/\ Len(Inits) >= 1
      /\ Inits[1].ret = -2 \/ (Inits[1].ret # 0 /\ config.autorecovery = 0))
     => /\ sup.pc = "returned" /\ sup.exit = 1
        /\ disk = env.disk
        /\ Len(sup.calls) = 1
  /\ (Len(Inits) = 2 /\ Inits[2].ret # 0)
     => sup.pc = "returned" /\ sup.exit = 1

\* C17 witness: the loop was entered after a corrupt ring was set aside
\* and the second RingInitialize made a new one.
C17_Witness ==
  /\ InLoop
  /\ Len(Inits) = 2
  /\ Inits[1].ret = -1
  /\ disk[ringfilename] = "new"

(***************************************************************************)
(* C18: with AutoRecovery 1, .corrupt files left by an earlier recovery    *)
(* are not destroyed by a second recovery: what they held is still in the  *)
(* ring directory.                                                         *)
(***************************************************************************)
C18_BackupsKept ==
  \A f \in Files :
    (config.autorecovery = 1 /\ env.disk[f] = "earlier")
      => \E g \in Files : g[1] = f[1] /\ disk[g] = "earlier"

(***************************************************************************)
(* C19: with a version 1 packet buffer and AutoRecovery 1 the calls come   *)
(* in this order: RingInitialize, the two renames to .version1, the        *)
(* RingInitialize that makes an empty ring, LoadBufferV1, the two unlinks  *)
(* of the backups; then the loop.  The backups are removed only if the     *)
(* loader returned 0 or more; if it failed the loop is entered all the     *)
(* same, with the backups in place.                                        *)
(***************************************************************************)
Version1Run == config.autorecovery = 1 /\ env.disk[ringfilename] = "version1"

ConversionOrder ==
  <<"RingInitialize", "rename", "rename", "RingInitialize", "LoadBufferV1",
    "unlink", "unlink">>

CallNames == [i \in DOMAIN sup.calls |-> sup.calls[i].call]

Version1Backups ==
  {BackupName(ringfilename, 1), BackupName(streamfilename, 1)}

C19_ConversionOrder ==
  /\ [](Version1Run =>
         /\ Len(CallNames) <= Len(ConversionOrder)
         /\ CallNames = SubSeq(ConversionOrder, 1, Len(CallNames))
         /\ (Len(sup.calls) = 4 /\ sup.calls[4].ret = 0)
            => (/\ disk[ringfilename] = "new"
                /\ \A f \in Version1Backups : disk[f] = "version1")
         /\ Len(sup.calls) > 5 => sup.calls[5].ret >= 0
         /\ (Len(sup.calls) >= 5 /\ sup.calls[5].ret < 0)
            => \A f \in Version1Backups : disk[f] = "version1"
         /\ InLoop =>
              \/ /\ Len(sup.calls) = 7
                 /\ disk[ringfilename] = "replayed"
                 /\ \A f \in Version1Backups : disk[f] = "none"
              \/ /\ Len(sup.calls) = 5
                 /\ sup.calls[5].ret < 0)
  /\ [][(Version1Run /\ sup.pc = "convert" /\ sup'.loaded_packets < 0)
          => sup'.pc = "top"]_vars

\* C19 witness: the loop was entered after the whole conversion; the ring
\* holds the replayed packets and the .version1 files are gone.
C19_Witness ==
  /\ Version1Run
  /\ InLoop
  /\ CallNames = ConversionOrder
  /\ disk[ringfilename] = "replayed"
  /\ \A f \in Version1Backups : disk[f] = "none"

(***************************************************************************)
(* C20: once the state of a unit is Closing or Closed, no step sets it to  *)
(* Close, in the idle timeout path and in the shutdown marking path alike, *)
(* however the main loop's test of the state and the worker's own          *)
(* transitions interleave.                                                 *)
(***************************************************************************)
C20_NoDowngrade ==
  [][/\ \A c \in DOMAIN cl :
          cl[c].td_state \in {TDS_CLOSING, TDS_CLOSED}
            => cl'[c].td_state # TDS_CLOSE
     /\ \A p \in Ports :
          sthreads[p].td_state \in {TDS_CLOSING, TDS_CLOSED}
            => sthreads'[p].td_state # TDS_CLOSE]_vars

(***************************************************************************)
(* C21: the main loop sets a unit to Close only from Active; it never      *)
(* writes Close over Spawning.                                             *)
(***************************************************************************)
C21_CloseNotOverSpawning ==
  [][\A c \in DOMAIN cl :
       (sup' # sup /\ cl[c].td_state = TDS_SPAWNING)
         => cl'[c].td_state # TDS_CLOSE]_vars

(***************************************************************************)
(* C22: main writes no state but Close to a unit that exists (Spawning is  *)
(* written only with a new thread_data, in a slot that was empty or held a *)
(* joined Closed thread); a listener writes only Active and Closed, only   *)
(* to its own unit, and writes the state of no client unit that exists.    *)
(***************************************************************************)
C22_WhoWritesWhat ==
  [][/\ \A c \in DOMAIN cl :
          cl'[c].td_state # cl[c].td_state =>
            IF sup' # sup THEN cl'[c].td_state = TDS_CLOSE ELSE lt' = lt
     /\ \A p \in Ports :
          sthreads'[p].td_state # sthreads[p].td_state =>
            IF sup' # sup
            THEN \/ sthreads'[p].td_state = TDS_CLOSE
                 \/ /\ sthreads[p].td_state \in {"none", TDS_CLOSED}
                    /\ sthreads'[p].td_state \in {"none", TDS_SPAWNING}
            ELSE /\ sthreads'[p].td_state \in {TDS_ACTIVE, TDS_CLOSED}
                 /\ lt'[p] # lt[p]
                 /\ \A q \in Ports \ {p} : lt'[q] = lt[q]]_vars

\* C22 witness: main has set a client to Close and the listener that made
\* the client has set its own unit to Closed.
C22_Witness ==
  /\ \E c \in DOMAIN cl : cl[c].td_state = TDS_CLOSE /\ cl[c].thr = "running"
  /\ \E p \in Ports : sthreads[p].td_state = TDS_CLOSED

(***************************************************************************)
(* C23: with no shutdown requested, a server unit that main finds Closed   *)
(* in its walk is joined and gets a fresh thread on the same payload; if   *)
(* the spawn fails the slot is left empty, and a unit found with an empty  *)
(* slot gets the same attempt on every pass.                               *)
(***************************************************************************)
\* The step is main's visit of server unit p in its walk.
ServerTurn(p) ==
  sup.pc = "servers" /\ sup.loopstp = p /\ sup'.loopstp = p + 1

LiveListener(p) == lt[p].pc \notin {"none", "exited"}

DoneWith(p) == lt[p].pc \in {"count", "loop", "closing"} /\ lt[p].res # "none"

C25_SocketOwnedOrClosed ==
  /\ [][\A c \in DOMAIN cl :
          (lt' # lt /\ cl[c].thr = "running")
          => /\ cl'[c].socket = cl[c].socket
             /\ cl'[c].td_free = cl[c].td_free]_vars
  /\ [](\A p \in Ports :
          (DoneWith(p) /\ lt[p].clientsocket = "closed")
          => (lt[p].cid \in DOMAIN cl => cl[lt[p].cid].thr = "none"))

(***************************************************************************)
(* C26: every ClientInfo a listener built is freed exactly once, by main,  *)
(* after its unit reached Closed and its thread was joined: never twice,   *)
(* and none is left unfreed when the listener gives the connection up.     *)
(***************************************************************************)
\* The listener gave up client c: no thread was created for it and its
\* thread_data was freed.
GivenUp(c) == cl[c].thr = "none" /\ cl[c].td_free > 0

C26_RecordFreedOnce ==
  \A c \in DOMAIN cl :
    /\ cl[c].cinfo_free <= 1
    /\ cl[c].cinfo_free = 1 => cl[c].thr = "joined"
    /\ GivenUp(c) => cl[c].cinfo_free = 1

(***************************************************************************)
(* C27: a connection rejected by the match list, the reject list, the      *)
(* per-address cap or the global cap leaves the client list and            *)
(* param.clientcount as they were, gets no ClientInfo and no thread, has   *)
(* its socket closed by the listener, and the listener goes on to the next *)
(* accept.                                                                 *)
(***************************************************************************)
AdmissionChecks == {"match", "reject", "perip", "cap", "reserve"}

Rejections == {"match", "reject", "perip", "cap"}

C27_RejectionLeavesNoTrace ==
  [][\A p \in Ports :
       /\ (lt[p].pc \in AdmissionChecks /\ lt'[p] # lt[p])
          => /\ cl' = cl
             /\ cthreads' = cthreads
             /\ clientcount' = clientcount
             /\ lt'[p].res \in Rejections
                => /\ lt'[p].clientsocket = "closed"
                   /\ lt'[p].cid = 0
                   /\ lt'[p].pc = "loop"
       /\ (/\ lt[p].pc = "loop" /\ lt[p].res \in Rejections
           /\ lt'[p] # lt[p] /\ shutdownsig = 0)
          => lt'[p].pc = "accept"]_vars

\* C27 witness: with a client in the list, a connection from the reject
\* list was turned away and the listener is back in accept.
C27_Witness ==
  /\ cthreads # <<>>
  /\ \E p \in Ports :
       /\ lt[p].pc = "accept"
       /\ lt[p].res = "reject"
       /\ lt[p].clientsocket = "closed"

(***************************************************************************)
(* C28: main reads the state of a unit while it holds the unit's td_lock.  *)
(* Workers take td_lock for their transitions, so a state main has tested  *)
(* cannot change before main has acted on the test: between the test of    *)
(* the marking pass and the store of Close, only main changes the state of *)
(* the unit.                                                               *)
(***************************************************************************)
C28_TestedUnderLock ==
  [][sup.pc = "mark_write" =>
       LET c == cthreads[sup.loopctp]
       IN cl'[c].td_state # cl[c].td_state => sup' # sup]_vars

(***************************************************************************)
(* C29: main holds param.sthreads_lock and param.cthreads_lock only while  *)
(* it changes the list: neither is held when main creates or joins a       *)
(* thread, closes a listening socket or computes the statistics of a       *)
(* client.                                                                 *)
(***************************************************************************)
C29_LocksOnlyForList ==
  [][/\ \A p \in Ports :
          (lt'[p].pc = "start" /\ lt'[p] # lt[p]) => sthreads_lock # "main"
     /\ \A p \in Ports :
          (lpp'[p].socket # lpp[p].socket /\ sup' # sup) => sthreads_lock' # "main"
     /\ \A c \in DOMAIN cl :
          (cl'[c].thr = "joined" /\ cl[c].thr # "joined") => cthreads_lock # "main"
     /\ \A c \in DOMAIN cl :
          CalcStatsCall(c) => cthreads_lock # "main"]_vars

(***************************************************************************)
(* C30: a re-read of the configuration file that fails keeps the previous  *)
(* snapshot and does not set configreset: unless the window ran out in     *)
(* this pass (tlogwrite), the pass of a failed re-read does not calculate  *)
(* the transfer log window again.                                          *)
(***************************************************************************)
\* The calls main() makes in this step.
NewCalls == SubSeq(sup'.calls, Len(sup.calls) + 1, Len(sup'.calls))

\* This step is a pass whose re-read of the configuration file failed.
FailedReread ==
  \E i \in DOMAIN NewCalls :
    NewCalls[i].call = "ReadConfigFile" /\ NewCalls[i].ret # 0

C30_FailedRereadKeepsWindow ==
  [][FailedReread
       => /\ config' = config
          /\ sup.tlogwrite = 0
               => \A i \in DOMAIN NewCalls : NewCalls[i].call # "CalcIntWin"]_vars

(***************************************************************************)
(* C31: a connection accepted on a UNIX endpoint matches no entry of any   *)
(* list: with a match list it is rejected, so no client is built for it,   *)
(* and a client of a UNIX endpoint has no write permission, no trusted     *)
(* flag and no stream limit.                                               *)
(***************************************************************************)
C31_UnixMatchesNothing ==
  \A c \in DOMAIN cl :
    lpp[cl[c].port].options = FAMILY_UNIX
      => /\ config.matchips = <<>>
         /\ ~cl[c].writeperm
         /\ ~cl[c].trusted
         /\ cl[c].limit = 0

(***************************************************************************)
(* C32: MatchIP gives the first entry of the list, in list order, that has *)
(* the family of the address and whose network is the address under the   *)
(* entry's mask, and none when no entry qualifies; an address never        *)
(* matches an entry of the other family.  The stream limit of a client is  *)
(* that first entry of the limit list, its write permission is whether the *)
(* write list has such an entry.                                           *)
(***************************************************************************)
\* Entry net qualifies for addr.
Qualifies(net, addr) ==
  /\ addr.sa_family \in {AF_INET, AF_INET6}
  /\ net.family = addr.sa_family
  /\ \A k \in DOMAIN addr.addr : BitAnd(addr.addr[k], net.netmask[k]) = net.network[k]

\* i is the first qualifying entry of list for addr, or 0 when there is none.
FirstQualifying(list, addr, i) ==
  IF \E j \in DOMAIN list : Qualifies(list[j], addr)
  THEN /\ i \in DOMAIN list
       /\ Qualifies(list[i], addr)
       /\ \A j \in 1..(i - 1) : ~Qualifies(list[j], addr)
  ELSE i = 0

C32_FirstMatchWins ==
  \A c \in DOMAIN cl :
    /\ FirstQualifying(config.limitips, cl[c].addr, cl[c].limit)
    /\ cl[c].writeperm <=> \E j \in DOMAIN config.writeips :
                             Qualifies(config.writeips[j], cl[c].addr)

\* C32 witness: the address of a client qualifies for two entries of the
\* limit list and the client has the pattern of the earlier one.
C32_Witness ==
  \E c \in DOMAIN cl :
    /\ cl[c].limit = 1
    /\ config.limitips[1].limitstr = "NET_*"
    /\ Qualifies(config.limitips[2], cl[c].addr)

(***************************************************************************)
(* C33: CalcStats does not divide by zero for the percent lag: on a ring   *)
(* whose latest offset is its earliest offset, and for a reader without a  *)
(* valid position, the percent lag it stores is 0.                         *)
(***************************************************************************)
C33_ZeroSpanGivesZero ==
  [][\A c \in DOMAIN cl :
       (/\ CalcStatsCall(c)
        /\ \/ env.ring.latestoffset = env.ring.earliestoffset
           \/ ~cl[c].cinfo.reader.valid)
         => cl'[c].cinfo.percentlag = 0]_vars

(***************************************************************************)
(* C34: no deadlock.  A listener that asks for param.cthreads_lock (in     *)
(* ClientIPCount, and to link a client) gets it; main() gets through its   *)
(* walk of the server threads, joins of CLOSED listeners under             *)
(* param.sthreads_lock included, and through its walk of the clients, in   *)
(* the loop and in the marking pass of a shutdown.                         *)
(***************************************************************************)
\* Listener p is at a place where it takes param.cthreads_lock.
AsksListLock(p) == lt[p].pc \in {"perip", "link"}

C34_NoDeadlock ==
  /\ \A p \in 1..Len(ShutdownConfig.listen) :
       AsksListLock(p) ~> ~AsksListLock(p)
  /\ (sup.pc = "servers") ~> (sup.pc # "servers")
  /\ (sup.pc = "clients") ~> (sup.pc = "endcheck")
  /\ (sup.pc = "mark_servers") ~> (sup.pc \in {"valve", "returned"})

\* C34 witness: main() holds param.cthreads_lock for its walk of the
\* clients while the listener is at the place where it asks for it.
C34_Witness ==
  /\ cthreads_lock = "main"
  /\ sup.pc = "clients"
  /\ \E p \in Ports : lt[p].pc = "link"

(***************************************************************************)
(* C35: once the shutdown has begun (shutdownsig > 1) the count of passes  *)
(* never goes down: a termination signal that arrives during the shutdown  *)
(* does not start it again.                                                *)
(***************************************************************************)
C35_CounterNeverDecreases ==
  [][shutdownsig > 1 => shutdownsig' >= shutdownsig]_vars

(***************************************************************************)
(* C36: a connection is rejected by the per-address cap only when at least *)
(* MaxClientsPerIP clients of its address are still connected: a client    *)
(* that has reached TDS_CLOSED and waits for its cleanup does not count.   *)
(***************************************************************************)
\* The linked clients of addr that have not reached TDS_CLOSED.
Connected(addr) ==
  {i \in 1..Len(cthreads) :
     cl[cthreads[i]].addr = addr /\ cl[cthreads[i]].td_state # TDS_CLOSED}

C36_CapCountsConnected ==
  [][\A p \in Ports :
       (lt[p].pc = "perip" /\ lt'[p].res = "perip")
         => Cardinality(Connected(lt[p].paddr)) >= config.maxclientsperip]_vars

(***************************************************************************)
(* C37: a crossing of the end of the transfer log window writes at most    *)
(* one row per client: a row is written for a client only if its last row  *)
(* was not written for the window that is current, and no row is written   *)
(* in a pass of the shutdown (shutdownsig > 1).                            *)
(***************************************************************************)
C37_OneRowPerWindow ==
  [][\A c \in DOMAIN cl :
       (CalcStatsCall(c) /\ sup.tlogwrite = 1)
         => /\ shutdownsig < 2
            /\ cl[c].tlogrow # sup.tlog.tlogendint]_vars

(***************************************************************************)
(* C38: the rates lose no packet and no byte.  What a CalcStats call takes *)
(* as the count of a tx rate is what the call adds to the history value:   *)
(* the counts of successive calls add up to the history value the last     *)
(* call left, whenever the worker counts.                                  *)
(***************************************************************************)
C38_DeltasSumToHistory ==
  [][\A c \in DOMAIN cl :
       CalcStatsCall(c)
         => /\ cl'[c].cinfo.txpacketrate.count
                 = cl'[c].cinfo.txpackets[2] - cl[c].cinfo.txpackets[2]
            /\ cl'[c].cinfo.txbyterate.count
                 = cl'[c].cinfo.txbytes[2] - cl[c].cinfo.txbytes[2]]_vars

(***************************************************************************)
(* C39: while the listener of a UNIX endpoint is TDS_ACTIVE and no         *)
(* shutdown was requested, the path of the endpoint's socket exists, also  *)
(* for a listener that main() started after an earlier one had ended.      *)
(***************************************************************************)
C39_ActiveUnixHasPath ==
  \A p \in Ports :
    (/\ lpp[p].options = FAMILY_UNIX
     /\ sthreads[p].td
     /\ sthreads[p].td_state = TDS_ACTIVE
     /\ shutdownsig = 0)
      => p \in fs

====
